---- MODULE Spec2Model ----
(***************************************************************************)
(* Component Decomposer: the Component IR, its resolver, the linking-      *)
(* metadata builder, the rewriter/emitter and the orchestrator, modelled   *)
(* from component-parser/src and decomposer/src/bin/decompose/linking.rs.  *)
(*                                                                         *)
(* Index spaces are 0-based in the program; a position i of a vector is    *)
(* element i+1 of the sequence that models it (operator At).               *)
(***************************************************************************)
EXTENDS Integers, Sequences, FiniteSets, TLC

\* ------------------------------------------------------------------ bounds
\* Largest number of imports of the consumer module of an input Component.
MaxImports == 2
\* Largest number of exports of the first FromExports bundle of an input.
MaxBundle == 2

\* ------------------------------------------------------------- Option/Result
None == [tag |-> "None"]
Some(v) == [tag |-> "Some", v |-> v]
Ok(v) == [tag |-> "Ok", v |-> v]
\* kind: "panic" (expect/unwrap/assert/panic!), "unsupported" (unsupported!), "io"
Err(kind, msg) == [tag |-> "Err", kind |-> kind, msg |-> msg]
IsOk(r) == r.tag = "Ok"
IsErr(r) == r.tag = "Err"
\* the `?` operator (and the unwinding of a panic): an Err ends the computation,
\* an Ok value is handed to the rest K of it
Bind(r, K(_)) == IF r.tag = "Err" THEN r ELSE K(r.v)

\* IndexSpace::get / Index: position idx of a vector
InBounds(s, idx) == idx >= 0 /\ idx < Len(s)
At(s, idx) == s[idx + 1]

\* Iterator::find: the 1-based position of the first element satisfying P, 0 if none
\* hits is the set of 1-based positions that satisfy the predicate
FirstPos(hits) ==
    IF hits # {} THEN CHOOSE i \in hits : \A j \in hits : i <= j ELSE 0

\* HashMap::insert on a map modelled as a function
MapInsert(m, k, v) == [x \in (DOMAIN m) \cup {k} |-> IF x = k THEN v ELSE m[x]]
\* HashMap::remove: the map without key k
MapRemove(m, k) == [x \in (DOMAIN m) \ {k} |-> m[x]]
EmptyMap == [x \in {} |-> 0]

\* The iteration orders a std HashMap with the default RandomState hasher may
\* produce for key set S: the hasher is seeded per process, so any order.
HashOrders(S) ==
    {o \in [1..Cardinality(S) -> S] : \A i, j \in 1..Cardinality(S) : o[i] = o[j] => i = j}

\* ------------------------------------------------------------------ resolver
\* resolve.rs normalises FuncExact to Func on both sides of the kind comparison
NormKind(k) == IF k = "func_exact" THEN "func" ELSE k

\* ModuleNode::resolve at the top level (no parent scope): Defined / Imported
resolve_module(c, idx) ==
    IF ~InBounds(c.modules, idx) THEN Err("panic", "Index out of bounds")
    ELSE LET node == At(c.modules, idx) IN
         CASE node.tag = "Defined" -> Ok([tag |-> "Defined", module |-> node.module])
           [] node.tag = "Imported" -> Ok([tag |-> "Imported"])
           [] OTHER -> Err("panic", "Outer alias but no parents available")

\* CoreInstanceNode::resolve
resolve_core_instance(c, idx) ==
    IF ~InBounds(c.core_instances, idx) THEN Err("panic", "Index out of bounds")
    ELSE LET node == At(c.core_instances, idx) IN
         CASE node.tag = "Instantiated" -> Ok(node)
           [] node.tag = "FromExports" -> Ok(node)
           [] OTHER -> Err("panic", "Outer alias but no parents available")

RECURSIVE resolve_alias_export_core_instance(_, _, _, _)
RECURSIVE resolve_core_func(_, _)
RECURSIVE resolve_core_item(_, _, _)

\* Component::resolve_alias_export_core_instance: (module_idx, internal index)
resolve_alias_export_core_instance(c, instance_idx, name, expected_kind) ==
    Bind(resolve_core_instance(c, instance_idx), LAMBDA ri :
        IF ri.tag = "Instantiated" THEN
            IF ~InBounds(c.modules, ri.module_idx)
            THEN Err("panic", "Module index out of bounds")
            ELSE LET module_node == At(c.modules, ri.module_idx) IN
                 IF module_node.tag # "Defined"
                 THEN Err("panic", "Cannot resolve core instance export through imported module")
                 ELSE LET exps == module_node.module.exports
                          p == FirstPos({i \in 1..Len(exps) : exps[i].name = name}) IN
                      IF p = 0 THEN Err("panic", "Export not found in module")
                      ELSE IF NormKind(exps[p].kind) # NormKind(expected_kind)
                           THEN Err("panic", "Export has unexpected kind")
                           ELSE Ok([module_idx |-> ri.module_idx, index |-> exps[p].index])
        ELSE LET exps == ri.exports
                 p == FirstPos({i \in 1..Len(exps) : exps[i].name = name}) IN
             IF p = 0 THEN Err("panic", "Export not found in FromExports core instance")
             ELSE IF exps[p].kind # expected_kind
                  THEN Err("panic", "Export has unexpected kind")
                  ELSE CASE expected_kind \in {"func", "func_exact"} ->
                              Bind(resolve_core_func(c, exps[p].index), LAMBDA r :
                                  IF r.tag = "FromModule"
                                  THEN Ok([module_idx |-> r.module_idx, index |-> r.func_idx])
                                  ELSE Err("panic", "FromExports can only export a module func"))
                         [] expected_kind \in {"memory", "table", "global"} ->
                              resolve_core_item(c, expected_kind, exps[p].index)
                         [] OTHER -> Err("panic", "Tag resolution not yet implemented"))

\* CoreFuncNode::resolve and follow_alias
resolve_core_func(c, idx) ==
    IF ~InBounds(c.core_funcs, idx) THEN Err("panic", "Index out of bounds")
    ELSE LET node == At(c.core_funcs, idx) IN
         CASE node.tag = "Lowered" ->
                Ok([tag |-> "Lowered", func_idx |-> node.func_idx, options |-> node.options])
           [] node.tag = "ResourceDrop" -> Ok([tag |-> "ResourceDrop"])
           [] node.tag = "Aliased" ->
                Bind(resolve_alias_export_core_instance(c, node.instance_idx, node.name, "func"),
                     LAMBDA r : Ok([tag |-> "FromModule", module_idx |-> r.module_idx,
                                    func_idx |-> r.index]))
           [] OTHER -> Err("panic", "Core func cannot be aliased this way")

\* CoreMemoryNode / CoreTableNode / CoreGlobalNode ::resolve (all three spaces
\* hold only CoreInstanceExport aliases at the top level)
resolve_core_item(c, kind, idx) ==
    LET space == CASE kind = "memory" -> c.core_memories
                   [] kind = "table" -> c.core_tables
                   [] OTHER -> c.core_globals IN
    IF ~InBounds(space, idx) THEN Err("panic", "Index out of bounds")
    ELSE resolve_alias_export_core_instance(c, At(space, idx).instance_idx, At(space, idx).name, kind)

resolve_core_memory(c, idx) == resolve_core_item(c, "memory", idx)
resolve_core_table(c, idx) == resolve_core_item(c, "table", idx)

\* ComponentFuncNode::resolve at the top level
resolve_component_func(c, idx) ==
    IF ~InBounds(c.funcs, idx) THEN Err("panic", "Index out of bounds")
    ELSE LET node == At(c.funcs, idx) IN
         CASE node.tag = "Imported" -> Ok([tag |-> "Imported"])
           [] node.tag = "Lifted" ->
                Ok([tag |-> "Lifted", core_func_idx |-> node.core_func_idx, options |-> node.options])
           [] OTHER -> Err("panic", "Outer alias but no parents available")

\* ------------------------------------------------------- linking metadata
\* linking.rs: format!("module{}_instance{}", module_id.0, instance_id.0)
module_name_from_ids(module_id, instance_id) ==
    "module" \o ToString(module_id) \o "_instance" \o ToString(instance_id)

\* linking.rs: instance_map.iter().find(|(_, mid)| **mid == module_id).unwrap().0
\* im = [map |-> instance_map, order |-> the iteration order of that HashMap]
assumed_instance_id(im, module_id) ==
    LET p == FirstPos({i \in 1..Len(im.order) : im.map[im.order[i]] = module_id}) IN
    IF p = 0 THEN Err("panic", "unwrap on None") ELSE Ok(im.order[p])

\* main.rs get_export_name_from_kind_idx: name of the first export of the
\* module whose kind is among kinds and whose index is kind_idx
get_export_name_from_kind_idx(c, module_idx, kinds, kind_idx) ==
    Bind(resolve_module(c, module_idx), LAMBDA rm :
        IF rm.tag # "Defined" THEN Err("panic", "defined() on an imported module")
        ELSE LET exps == rm.module.exports
                 p == FirstPos({i \in 1..Len(exps) :
                                   exps[i].kind \in kinds /\ exps[i].index = kind_idx}) IN
             IF p = 0 THEN Err("panic", "Export should be found in module")
             ELSE Ok(exps[p].name))

\* ModuleInstanceExport { mid: assumed_instance_id(..), name: export name }
module_instance_export(c, im, module_idx, kinds, kind_idx) ==
    Bind(get_export_name_from_kind_idx(c, module_idx, kinds, kind_idx), LAMBDA n :
    Bind(assumed_instance_id(im, module_idx), LAMBDA a :
        Ok([mid |-> a, name |-> n])))

\* CanonicalOptionsIndex::from_options, inner fn func_resolve
func_resolve(c, func_idx, im) ==
    Bind(resolve_core_func(c, func_idx), LAMBDA r :
        IF r.tag = "FromModule"
        THEN module_instance_export(c, im, r.module_idx, {"func", "func_exact"}, r.func_idx)
        ELSE Err("panic", "Canonical options core references can only come FromModule"))

CanonicalOptionsIndexDefault == [memory |-> None, realloc |-> None, post_return |-> None]

RECURSIVE from_options_loop(_, _, _, _, _)
\* the for loop of from_options, from option k on
from_options_loop(c, options, im, k, opts_ref) ==
    IF k > Len(options) THEN Ok(opts_ref)
    ELSE LET opt == options[k] IN
         CASE opt.opt = "Realloc" ->
                Bind(func_resolve(c, opt.idx, im), LAMBDA r :
                    from_options_loop(c, options, im, k + 1, [opts_ref EXCEPT !.realloc = Some(r)]))
           [] opt.opt = "PostReturn" ->
                Bind(func_resolve(c, opt.idx, im), LAMBDA r :
                    from_options_loop(c, options, im, k + 1, [opts_ref EXCEPT !.post_return = Some(r)]))
           [] opt.opt = "Memory" ->
                Bind(resolve_core_memory(c, opt.idx), LAMBDA m :
                Bind(module_instance_export(c, im, m.module_idx, {"memory"}, m.index), LAMBDA r :
                    from_options_loop(c, options, im, k + 1, [opts_ref EXCEPT !.memory = Some(r)])))
           [] opt.opt \in {"UTF8", "UTF16"} ->
                from_options_loop(c, options, im, k + 1, opts_ref)
           [] OTHER -> Err("panic", "Canonical option variant not supported yet")

\* from_options returning Some(opts_ref) for an empty option vector as well
from_options_always_some(c, options, im) ==
    Bind(from_options_loop(c, options, im, 1, CanonicalOptionsIndexDefault), LAMBDA r :
        Ok(Some(r)))

\* CanonicalOptionsIndex::from_options: (!options.is_empty()).then_some(opts_ref)
from_options(c, options, im) ==
    Bind(from_options_loop(c, options, im, 1, CanonicalOptionsIndexDefault), LAMBDA r :
        IF Len(options) = 0 THEN Ok(None) ELSE Ok(Some(r)))

TrueImport(opts) == [tag |-> "TrueImport", opts |-> opts]
Builtin == [tag |-> "Builtin"]
Rename(package, member) == [tag |-> "Rename", package |-> package, member |-> member]

\* the classification gather_instance_link computes for one bundle export
classify_export(c, export, im) ==
    CASE export.kind = "func" ->
           Bind(resolve_core_func(c, export.index), LAMBDA core_func :
               CASE core_func.tag = "Lowered" ->
                      Bind(resolve_component_func(c, core_func.func_idx), LAMBDA comp_func :
                          IF comp_func.tag = "Imported"
                          THEN Bind(from_options(c, core_func.options, im),
                                    LAMBDA o : Ok(TrueImport(o)))
                          ELSE Err("panic", "Lowered CoreFunc should not come from lifted ComponentFunc"))
                 [] core_func.tag = "FromModule" ->
                      Bind(module_instance_export(c, im, core_func.module_idx,
                                                  {"func", "func_exact"}, core_func.func_idx),
                           LAMBDA r : Ok(Rename(r.mid, r.name)))
                 [] OTHER -> Ok(Builtin))
      [] export.kind \in {"table", "memory"} ->
           Bind(resolve_core_item(c, export.kind, export.index), LAMBDA item :
           Bind(module_instance_export(c, im, item.module_idx, {export.kind}, item.index),
                LAMBDA r : Ok(Rename(r.mid, r.name))))
      [] OTHER -> Err("unsupported", "Linking of export kind")

RECURSIVE gather_instance_link_loop(_, _, _, _, _, _)
\* gather_instance_link without its closing assert!(member_imports.is_empty())
gather_instance_link_loop_unchecked(link_imports, member_imports, c, instance_exports, im, k) ==
    IF k > Len(instance_exports) THEN Ok(link_imports)
    ELSE IF instance_exports[k].name \notin DOMAIN member_imports
         THEN Err("panic", "export should be matched by an import")
         ELSE Bind(classify_export(c, instance_exports[k], im), LAMBDA kind :
                  gather_instance_link_loop(
                      MapInsert(link_imports, member_imports[instance_exports[k].name], kind),
                      MapRemove(member_imports, instance_exports[k].name),
                      c, instance_exports, im, k + 1))

\* the for loop of gather_instance_link, from bundle export k on
gather_instance_link_loop(link_imports, member_imports, c, instance_exports, im, k) ==
    IF k > Len(instance_exports)
    THEN IF DOMAIN member_imports = {} THEN Ok(link_imports)
         ELSE Err("panic", "All imports should be matched by exports")
    ELSE IF instance_exports[k].name \notin DOMAIN member_imports
         THEN Err("panic", "export should be matched by an import")
         ELSE Bind(classify_export(c, instance_exports[k], im), LAMBDA kind :
                  gather_instance_link_loop(
                      MapInsert(link_imports, member_imports[instance_exports[k].name], kind),
                      MapRemove(member_imports, instance_exports[k].name),
                      c, instance_exports, im, k + 1))

\* main.rs gather_instance_link
gather_instance_link(link_imports, member_imports, c, instance_exports, im) ==
    gather_instance_link_loop(link_imports, member_imports, c, instance_exports, im, 1)

\* ExportFuncMetadata numbered by the count of entries recorded so far, the
\* skipped exports not counted
push_export_func_uncounted(export_funcs, key, k, name, opts) ==
    MapInsert(export_funcs, key,
              Append(IF key \in DOMAIN export_funcs THEN export_funcs[key] ELSE <<>>,
                     [record_id |-> Cardinality(UNION {{<<i, j>> : j \in 1..Len(export_funcs[i])} :
                                                          i \in DOMAIN export_funcs}),
                      name |-> name, opts |-> opts]))

\* ExportFuncMetadata for export position k of a lifted function cf, appended
\* to the entry of its instance
push_export_func(export_funcs, key, k, name, opts) ==
    MapInsert(export_funcs, key,
              Append(IF key \in DOMAIN export_funcs THEN export_funcs[key] ELSE <<>>,
                     [record_id |-> k - 1, name |-> name, opts |-> opts]))

RECURSIVE gather_component_exports_loop(_, _, _, _)
\* the for loop of gather_component_exports, from export position k (1-based) on;
\* export_id is the 0-based position k - 1
gather_component_exports_loop(export_funcs, c, im, k) ==
    IF k > Len(c.exports) THEN Ok(export_funcs)
    ELSE IF c.exports[k].kind # "Func"
         THEN gather_component_exports_loop(export_funcs, c, im, k + 1)
         ELSE Bind(resolve_component_func(c, c.exports[k].index), LAMBDA cf :
              IF cf.tag = "Imported"
              THEN Err("unsupported", "Export of imported component functions")
              ELSE Bind(resolve_core_func(c, cf.core_func_idx), LAMBDA core_func :
                   IF core_func.tag # "FromModule"
                   THEN Err("unsupported", "Lifted ComponentFunc sourced from non-FromModule CoreFuncs")
                   ELSE Bind(assumed_instance_id(im, core_func.module_idx), LAMBDA key :
                        Bind(get_export_name_from_kind_idx(c, core_func.module_idx,
                                 {"func", "func_exact"}, core_func.func_idx), LAMBDA name :
                        Bind(from_options(c, cf.options, im), LAMBDA opts :
                             gather_component_exports_loop(
                                 push_export_func(export_funcs, key, k, name, opts),
                                 c, im, k + 1))))))

\* main.rs gather_component_exports
gather_component_exports(export_funcs, c, im) ==
    gather_component_exports_loop(export_funcs, c, im, 1)

\* main.rs gather_instance_map: every Instantiated core instance, by position
gather_instance_map(c) ==
    IF \E i \in 1..Len(c.core_instances) : IsErr(resolve_core_instance(c, i - 1))
    THEN Err("panic", "Outer alias but no parents available")
    ELSE Ok([i \in {j - 1 : j \in {n \in 1..Len(c.core_instances) :
                                      c.core_instances[n].tag = "Instantiated"}}
              |-> At(c.core_instances, i).module_idx])

\* linking_metadata, the or_insert_with closure: import_map[module][name] = ImportId,
\* a later import with the same (module, name) replacing an earlier one
import_map_of(module) ==
    LET imps == module.imports
        pkgs == {imps[i].module : i \in 1..Len(imps)}
        names(p) == {imps[i].name : i \in {j \in 1..Len(imps) : imps[j].module = p}}
        last(p, n) == CHOOSE i \in 1..Len(imps) :
                         /\ imps[i].module = p /\ imps[i].name = n
                         /\ \A j \in (i + 1)..Len(imps) : ~(imps[j].module = p /\ imps[j].name = n)
    IN [p \in pkgs |-> [n \in names(p) |-> last(p, n) - 1]]

RECURSIVE link_args_loop(_, _, _, _, _, _, _)
\* the arg loop skipping an arg that names no import package of the module,
\* where the code's expect("import should be populated") panics
link_args_loop_skipping(c, im, synthetic, args, expected_imports, imports, k) ==
    IF k > Len(args) THEN Ok(imports)
    ELSE IF args[k].index \notin DOMAIN synthetic
         THEN Err("panic", "exported core instance should be already populated")
         ELSE IF args[k].name \notin DOMAIN expected_imports
         THEN link_args_loop(c, im, synthetic, args, expected_imports, imports, k + 1)
         ELSE Bind(gather_instance_link(imports, expected_imports[args[k].name], c,
                                        synthetic[args[k].index], im), LAMBDA r :
                  link_args_loop(c, im, synthetic, args,
                                 MapRemove(expected_imports, args[k].name), r, k + 1))

\* the `for arg in args` loop of linking_metadata, from arg k on
link_args_loop(c, im, synthetic, args, expected_imports, imports, k) ==
    IF k > Len(args) THEN Ok(imports)
    ELSE IF args[k].index \notin DOMAIN synthetic
         THEN Err("panic", "exported core instance should be already populated")
         ELSE IF args[k].name \notin DOMAIN expected_imports
         THEN Err("panic", "import should be populated")
         ELSE Bind(gather_instance_link(imports, expected_imports[args[k].name], c,
                                        synthetic[args[k].index], im), LAMBDA r :
                  link_args_loop(c, im, synthetic, args,
                                 MapRemove(expected_imports, args[k].name), r, k + 1))

\* linking_metadata, mm.entry(module_id).or_insert_with(..): the entry of the
\* module, created from its resolved definition when absent
mm_entry(c, mm, module_id) ==
    IF module_id \in DOMAIN mm THEN Ok(mm)
    ELSE Bind(resolve_module(c, module_id), LAMBDA rm :
             IF rm.tag # "Defined"
             THEN Err("panic", "defined() on an imported module")
             ELSE Ok(MapInsert(mm, module_id,
                               [module |-> rm.module, import_map |-> import_map_of(rm.module)])))

RECURSIVE link_instances_loop(_, _, _, _)
\* the loop of linking_metadata over core_instances, from position k (1-based) on;
\* st = [mm, synthetic, instantiations]; instance_id is k - 1
link_instances_loop(c, im, st, k) ==
    IF k > Len(c.core_instances) THEN Ok(st)
    ELSE CASE c.core_instances[k].tag = "Aliased" -> Err("unsupported", "Aliased core instance")
           [] c.core_instances[k].tag = "FromExports" ->
                link_instances_loop(c, im,
                    [st EXCEPT !.synthetic = MapInsert(st.synthetic, k - 1, c.core_instances[k].exports)],
                    k + 1)
           [] OTHER ->
                Bind(mm_entry(c, st.mm, c.core_instances[k].module_idx), LAMBDA mm1 :
                    IF Len(c.core_instances[k].args)
                          # Cardinality(DOMAIN mm1[c.core_instances[k].module_idx].import_map)
                    THEN Err("panic", "assert_eq args.len() expected_imports.len()")
                    ELSE Bind(link_args_loop(c, im, st.synthetic, c.core_instances[k].args,
                                             mm1[c.core_instances[k].module_idx].import_map,
                                             EmptyMap, 1), LAMBDA r :
                             link_instances_loop(c, im,
                                 [st EXCEPT !.mm = mm1,
                                            !.instantiations = MapInsert(st.instantiations, k - 1,
                                                [instantiate_order |-> k - 1, imports |-> r])],
                                 k + 1)))

\* main.rs linking_metadata; im_order is the iteration order of instance_map
linking_metadata(c, checksum, im_order) ==
    Bind(gather_instance_map(c), LAMBDA instance_map :
    Bind(link_instances_loop(c, [map |-> instance_map, order |-> im_order],
             [mm |-> EmptyMap, synthetic |-> EmptyMap, instantiations |-> EmptyMap], 1), LAMBDA st :
    Bind(gather_component_exports(EmptyMap, c, [map |-> instance_map, order |-> im_order]), LAMBDA ef :
         Ok([checksum |-> checksum, mm |-> st.mm, instance_map |-> instance_map,
             instantiations |-> st.instantiations, export_funcs |-> ef]))))

\* main.rs validate_assumptions
validate_assumptions(c) ==
    IF c.components # <<>> THEN Err("unsupported", "Nested components")
    ELSE IF \E i \in 1..Len(c.instances) : c.instances[i].tag # "Imported"
    THEN Err("unsupported", "Main, inline component instances")
    ELSE IF \E i \in 1..Len(c.modules) : c.modules[i].tag = "Imported"
    THEN Err("unsupported", "Imported modules")
    ELSE Ok(TRUE)

\* ------------------------------------------------------- rewriter / emitter
\* LinkingMetadata::module_id and the closure assigned_name of serialize_crimp_section
assigned_name(linking, instance_id) ==
    module_name_from_ids(linking.instance_map[instance_id], instance_id)

RECURSIVE rewrite_loop(_, _, _, _, _)
\* the loop pushing an adapter record for a TrueImport without options too
rewrite_loop_adapting_all(linking, kinds, order, k, acc) ==
    IF k > Len(order) THEN Ok(acc)
    ELSE LET idx == order[k]
             import_kind == kinds[idx] IN
         IF ~InBounds(acc.imports, idx) THEN Err("panic", "index out of bounds")
         ELSE LET pop == [acc.populated EXCEPT ![idx + 1] = TRUE] IN
              CASE import_kind.tag = "Builtin" ->
                     rewrite_loop(linking, kinds, order, k + 1,
                        [acc EXCEPT !.populated = pop,
                                    !.imports[idx + 1] = [module |-> "crimp-replay",
                                                          name |-> "builtin" \o ToString(acc.counter)],
                                    !.counter = acc.counter + 1])
                [] import_kind.tag = "TrueImport" ->
                     IF import_kind.opts.tag = "Some" /\ import_kind.opts.v.post_return.tag = "Some"
                     THEN Err("panic", "Post return should never be present for module imports")
                     ELSE rewrite_loop(linking, kinds, order, k + 1,
                            [acc EXCEPT !.populated = pop,
                                        !.imports[idx + 1] = [module |-> "crimp-replay",
                                                              name |-> "stub" \o ToString(acc.counter)],
                                        !.counter = acc.counter + 1,
                                        !.import_adapters =
                                            IF import_kind.opts.tag = "Some"
                                            THEN Append(acc.import_adapters,
                                                        [target |-> idx,
                                                         memory |-> import_kind.opts.v.memory,
                                                         realloc |-> import_kind.opts.v.realloc])
                                            ELSE Append(acc.import_adapters,
                                                        [target |-> idx,
                                                         memory |-> None,
                                                         realloc |-> None])])
                [] OTHER ->
                     rewrite_loop(linking, kinds, order, k + 1,
                        [acc EXCEPT !.populated = pop,
                                    !.imports[idx + 1] = [module |-> assigned_name(linking, import_kind.package),
                                                          name |-> import_kind.member]])

\* the loop with a Builtin import leaving the counter as it is
rewrite_loop_builtin_uncounted(linking, kinds, order, k, acc) ==
    IF k > Len(order) THEN Ok(acc)
    ELSE LET idx == order[k]
             import_kind == kinds[idx] IN
         IF ~InBounds(acc.imports, idx) THEN Err("panic", "index out of bounds")
         ELSE LET pop == [acc.populated EXCEPT ![idx + 1] = TRUE] IN
              CASE import_kind.tag = "Builtin" ->
                     rewrite_loop(linking, kinds, order, k + 1,
                        [acc EXCEPT !.populated = pop,
                                    !.imports[idx + 1] = [module |-> "crimp-replay",
                                                          name |-> "builtin" \o ToString(acc.counter)]])
                [] import_kind.tag = "TrueImport" ->
                     IF import_kind.opts.tag = "Some" /\ import_kind.opts.v.post_return.tag = "Some"
                     THEN Err("panic", "Post return should never be present for module imports")
                     ELSE rewrite_loop(linking, kinds, order, k + 1,
                            [acc EXCEPT !.populated = pop,
                                        !.imports[idx + 1] = [module |-> "crimp-replay",
                                                              name |-> "stub" \o ToString(acc.counter)],
                                        !.counter = acc.counter + 1,
                                        !.import_adapters =
                                            IF import_kind.opts.tag = "Some"
                                            THEN Append(acc.import_adapters,
                                                        [target |-> idx,
                                                         memory |-> import_kind.opts.v.memory,
                                                         realloc |-> import_kind.opts.v.realloc])
                                            ELSE acc.import_adapters])
                [] OTHER ->
                     rewrite_loop(linking, kinds, order, k + 1,
                        [acc EXCEPT !.populated = pop,
                                    !.imports[idx + 1] = [module |-> assigned_name(linking, import_kind.package),
                                                          name |-> import_kind.member]])

\* the loop `for (idx, import_kind) in imports` of serialize_crimp_section, taken
\* in iteration order `order`, from position k on;
\* acc = [imports, populated, counter, import_adapters]
rewrite_loop(linking, kinds, order, k, acc) ==
    IF k > Len(order) THEN Ok(acc)
    ELSE LET idx == order[k]
             import_kind == kinds[idx] IN
         IF ~InBounds(acc.imports, idx) THEN Err("panic", "index out of bounds")
         ELSE LET pop == [acc.populated EXCEPT ![idx + 1] = TRUE] IN
              CASE import_kind.tag = "Builtin" ->
                     rewrite_loop(linking, kinds, order, k + 1,
                        [acc EXCEPT !.populated = pop,
                                    !.imports[idx + 1] = [module |-> "crimp-replay",
                                                          name |-> "builtin" \o ToString(acc.counter)],
                                    !.counter = acc.counter + 1])
                [] import_kind.tag = "TrueImport" ->
                     IF import_kind.opts.tag = "Some" /\ import_kind.opts.v.post_return.tag = "Some"
                     THEN Err("panic", "Post return should never be present for module imports")
                     ELSE rewrite_loop(linking, kinds, order, k + 1,
                            [acc EXCEPT !.populated = pop,
                                        !.imports[idx + 1] = [module |-> "crimp-replay",
                                                              name |-> "stub" \o ToString(acc.counter)],
                                        !.counter = acc.counter + 1,
                                        !.import_adapters =
                                            IF import_kind.opts.tag = "Some"
                                            THEN Append(acc.import_adapters,
                                                        [target |-> idx,
                                                         memory |-> import_kind.opts.v.memory,
                                                         realloc |-> import_kind.opts.v.realloc])
                                            ELSE acc.import_adapters])
                [] OTHER ->
                     rewrite_loop(linking, kinds, order, k + 1,
                        [acc EXCEPT !.populated = pop,
                                    !.imports[idx + 1] = [module |-> assigned_name(linking, import_kind.package),
                                                          name |-> import_kind.member]])

\* LinkingMetadata::serialize_crimp_section: the renamed module and the section
\* data (postcard encodes the data field by field, in order, so the encoded
\* bytes are modelled by the data itself); `order` is the iteration order of the
\* imports HashMap
serialize_crimp_section(linking, instance_id, order) ==
    Bind(rewrite_loop(linking, linking.instantiations[instance_id].imports, order, 1,
            [imports |-> linking.mm[linking.instance_map[instance_id]].module.imports,
             populated |-> [i \in 1..Len(linking.mm[linking.instance_map[instance_id]].module.imports)
                              |-> FALSE],
             counter |-> 0,
             import_adapters |-> <<>>]), LAMBDA r :
        IF \E i \in 1..Len(r.populated) : ~r.populated[i]
        THEN Err("panic", "Not all imports were populated for instance")
        ELSE Ok([module |-> [module_name |-> assigned_name(linking, instance_id),
                             imports |-> r.imports,
                             exports |-> linking.mm[linking.instance_map[instance_id]].module.exports],
                 section |-> [checksum |-> linking.checksum,
                              instance_id |-> instance_id,
                              instantiate_order |->
                                  linking.instantiations[instance_id].instantiate_order,
                              import_adapters |-> r.import_adapters,
                              exports |-> IF instance_id \in DOMAIN linking.export_funcs
                                          THEN linking.export_funcs[instance_id] ELSE <<>>]]))

RECURSIVE crimp_modules_loop(_, _, _, _, _)
\* the map/collect over linking.instantiations.keys() of from_linking_metadata
crimp_modules_loop(linking, inst_order, imp_orders, k, acc) ==
    IF k > Len(inst_order) THEN Ok(acc)
    ELSE Bind(serialize_crimp_section(linking, inst_order[k], imp_orders[inst_order[k]]), LAMBDA r :
             crimp_modules_loop(linking, inst_order, imp_orders, k + 1,
                 Append(acc, [module_name |-> r.module.module_name,
                              imports |-> r.module.imports,
                              exports |-> r.module.exports,
                              custom_sections |-> <<[name |-> "crimp-replay", data |-> r.section]>>])))

\* ComponentDecomposed::from_linking_metadata; inst_order is the iteration order
\* of instantiations, imp_orders[i] that of instantiations[i].imports
from_linking_metadata(linking, inst_order, imp_orders) ==
    LET l1 == DOMAIN linking.mm
        l2 == {linking.instance_map[i] : i \in DOMAIN linking.instantiations} IN
    IF l1 # l2 THEN Err("panic", "Each module should be instantiated exactly once for now")
    ELSE IF ~(DOMAIN linking.export_funcs \subseteq DOMAIN linking.instantiations)
    THEN Err("panic", "Exported functions should only come from instantiated modules")
    ELSE crimp_modules_loop(linking, inst_order, imp_orders, 1, <<>>)

\* ------------------------------------------------------------------ inputs
\* Input Components are drawn from a bounded family of validated Components:
\* a provider module (module 0, no imports) instantiated first, two FromExports
\* bundles, a consumer module (module 1) instantiated with args, and optionally
\* a second instantiation of the provider or of the consumer.  Every index
\* refers to an item defined earlier, as validation guarantees.
Packages == {"p", "q"}
ImportPairs == {[module |-> "p", name |-> "x"], [module |-> "p", name |-> "y"],
                [module |-> "q", name |-> "x"]}

\* sequences over S without repetition, of length at most n
DistinctSeqs(S, n) ==
    UNION {{q \in [1..k -> S] : \A i, j \in 1..k : q[i] = q[j] => i = j} : k \in 0..n}

ProviderModule ==
    [imports |-> <<>>,
     exports |-> <<[name |-> "memory", kind |-> "memory", index |-> 0],
                   [name |-> "f", kind |-> "func", index |-> 0],
                   [name |-> "realloc", kind |-> "func", index |-> 1],
                   [name |-> "gl", kind |-> "global", index |-> 0]>>]

ConsumerModule(imps) ==
    [imports |-> imps,
     exports |-> <<[name |-> "run", kind |-> "func", index |-> Len(imps)]>>]

Alias(instance_idx, name) ==
    [tag |-> "Aliased", instance_idx |-> instance_idx, name |-> name]

\* the core-func space of every input: [0] $A.f, [1] canon lower without
\* options, [2] canon lower with memory/realloc, [3] $A.realloc,
\* [4] resource.drop, [5] the consumer's own export "run"
BaseCoreFuncs ==
    <<Alias(0, "f"),
      [tag |-> "Lowered", func_idx |-> 0, options |-> <<>>],
      [tag |-> "Lowered", func_idx |-> 0,
       options |-> <<[opt |-> "Memory", idx |-> 0], [opt |-> "Realloc", idx |-> 3],
                     [opt |-> "UTF8", idx |-> 0]>>],
      Alias(0, "realloc"),
      [tag |-> "ResourceDrop"]>>

\* what a bundle export may refer to: (kind, index in that core space)
Referents ==
    {[kind |-> "func", index |-> 0], [kind |-> "func", index |-> 1],
     [kind |-> "func", index |-> 2], [kind |-> "func", index |-> 4],
     [kind |-> "memory", index |-> 0], [kind |-> "global", index |-> 0]}

\* FromExports bundles: at most n exports, named x then y
Bundles(n) ==
    {<<>>}
    \cup (IF n >= 1
          THEN {<<[name |-> nm, kind |-> r.kind, index |-> r.index]>> :
                    nm \in {"x", "y"}, r \in Referents}
          ELSE {})
    \cup (IF n >= 2
          THEN {<<[name |-> "x", kind |-> r1.kind, index |-> r1.index],
                  [name |-> "y", kind |-> r2.kind, index |-> r2.index]>> :
                    r1 \in Referents, r2 \in Referents}
          ELSE {})
    \cup (IF n >= 3
          THEN {<<[name |-> "x", kind |-> r1.kind, index |-> r1.index],
                  [name |-> "y", kind |-> r2.kind, index |-> r2.index],
                  [name |-> "z", kind |-> "func", index |-> 0]>> :
                    r1 \in Referents, r2 \in Referents}
          ELSE {})

\* instantiation args: distinct package names in either order, "p" served by
\* the first bundle (instance 1) and "q" by the second (instance 2); or "p"
\* served directly by the provider's instance 0
ArgLists ==
    DistinctSeqs({[name |-> "p", index |-> 1], [name |-> "q", index |-> 2]}, 2)
    \cup {<<[name |-> "p", index |-> 0]>>}

Instantiated(module_idx, args) ==
    [tag |-> "Instantiated", module_idx |-> module_idx, args |-> args]
FromExports(exports) == [tag |-> "FromExports", exports |-> exports]

\* the bundle handed to a second instantiation of the consumer: every export
\* that referred to $A.f now refers to the first consumer instance's "run"
SelfBundle(b) ==
    [i \in 1..Len(b) |-> IF b[i].kind = "func" /\ b[i].index = 0
                         THEN [b[i] EXCEPT !.index = 5] ELSE b[i]]
SelfArgs(a) ==
    [i \in 1..Len(a) |-> IF a[i].name = "p" THEN [a[i] EXCEPT !.index = 4] ELSE a[i]]

MkComponent(imps, bundle, args, dup) ==
    [modules |-> <<[tag |-> "Defined", module |-> ProviderModule],
                   [tag |-> "Defined", module |-> ConsumerModule(imps)]>>,
     components |-> <<>>,
     instances |-> <<>>,
     funcs |-> <<[tag |-> "Imported"],
                 [tag |-> "Lifted", core_func_idx |-> 0, options |-> <<>>]>>,
     core_instances |->
         <<Instantiated(0, <<>>), FromExports(bundle),
           FromExports(<<[name |-> "x", kind |-> "func", index |-> 1]>>),
           Instantiated(1, args)>>
         \o (CASE dup = "provider" -> <<Instantiated(0, <<>>)>>
               [] dup = "consumer" -> <<FromExports(SelfBundle(bundle)), Instantiated(1, SelfArgs(args))>>
               [] OTHER -> <<>>),
     core_funcs |-> BaseCoreFuncs \o (IF dup = "consumer" THEN <<Alias(3, "run")>> ELSE <<>>),
     core_memories |-> <<Alias(0, "memory")>>,
     core_tables |-> <<>>,
     core_globals |-> <<Alias(0, "gl")>>,
     exports |-> <<[name |-> "ty", kind |-> "Type", index |-> 0],
                   [name |-> "main", kind |-> "Func", index |-> 1]>>]

\* a valid Component that defines nothing: no module, no core instance
EmptyComponent ==
    [modules |-> <<>>, components |-> <<>>, instances |-> <<>>, funcs |-> <<>>,
     core_instances |-> <<>>, core_funcs |-> <<>>, core_memories |-> <<>>,
     core_tables |-> <<>>, core_globals |-> <<>>, exports |-> <<>>]

\* a Component whose consumer imports p.x, served by the provider's export f
WiredComponent ==
    MkComponent(<<[module |-> "p", name |-> "x"]>>,
                <<[name |-> "x", kind |-> "func", index |-> 0]>>,
                <<[name |-> "p", index |-> 1]>>, "none")
\* c with a nested Component defined in it
WithNested(c) ==
    [c EXCEPT !.components = Append(@, [tag |-> "Defined", component |-> EmptyComponent])]
\* c with a module import
WithImportedModule(c) ==
    [c EXCEPT !.modules = Append(@, [tag |-> "Imported"])]
\* Components using a feature validate_assumptions rejects
UnsupportedInputs ==
    UNION {{WithNested(c), WithImportedModule(c)} : c \in {EmptyComponent, WiredComponent}}

\* WiredComponent with the function kind func-exact in one place: the provider
\* module exporting f as func-exact; the bundle exporting x as func-exact; the
\* consumer served by a second bundle whose x is core func 5, an alias of the
\* func-exact export x of the first bundle
FuncExactInputs ==
    {[WiredComponent EXCEPT !.modules[1].module.exports[2].kind = "func_exact"],
     [WiredComponent EXCEPT !.core_instances[2].exports[1].kind = "func_exact"],
     [WiredComponent EXCEPT !.core_instances[2].exports[1].kind = "func_exact",
                            !.core_funcs = Append(@, Alias(1, "x")),
                            !.core_instances[3].exports[1].index = 5,
                            !.core_instances[4].args[1].index = 2]}

\* WiredComponent with one more core func, [5], aliased from the export x of
\* the second bundle (core instance 2), which is the `canon lower` core func 1
AliasOfLoweredInput ==
    [WiredComponent EXCEPT !.core_funcs = Append(@, Alias(2, "x"))]

\* WiredComponent exporting three funcs around a type: the lifted provider func
\* twice, and a second lifted func [2], the consumer's export run (core func 5)
ExportsInput ==
    [WiredComponent EXCEPT
        !.core_funcs = Append(@, Alias(3, "run")),
        !.funcs = Append(@, [tag |-> "Lifted", core_func_idx |-> 5, options |-> <<>>]),
        !.exports = <<[name |-> "main", kind |-> "Func", index |-> 1],
                      [name |-> "ty", kind |-> "Type", index |-> 0],
                      [name |-> "again", kind |-> "Func", index |-> 1],
                      [name |-> "run", kind |-> "Func", index |-> 2]>>]

Inputs ==
    {MkComponent(imps, bundle, args, dup) :
        imps \in DistinctSeqs(ImportPairs, MaxImports),
        bundle \in Bundles(MaxBundle),
        args \in ArgLists,
        dup \in {"none", "provider", "consumer"}}
    \cup FuncExactInputs
    \cup {AliasOfLoweredInput, ExportsInput}

\* ------------------------------------------------------------------ parser
\* ir.rs Component { parents, .. }: the twelve index spaces and the exports of a
\* freshly created Component.  A parent reference (ParentScope::Component(Weak))
\* is modelled by the path of the parent from the root through `components`.
NewComponent(parents) ==
    [parents |-> parents, imports |-> <<>>,
     modules |-> <<>>, components |-> <<>>, instances |-> <<>>, funcs |-> <<>>,
     values |-> <<>>, types |-> <<>>,
     core_instances |-> <<>>, core_funcs |-> <<>>, core_memories |-> <<>>,
     core_tables |-> <<>>, core_globals |-> <<>>, core_types |-> <<>>,
     exports |-> <<>>]

\* the item definitions of a Component binary (one record per section entry)
TypeItem(def) == [p |-> "ComponentTypeSection", def |-> def]
CanonItem(kinds) == [p |-> "ComponentCanonicalSection", entries |-> kinds]
OuterTypeItem(count, index) ==
    [p |-> "ComponentAliasSection", alias |-> "Outer", kind |-> "Type",
     count |-> count, index |-> index]
OuterItem(kind, count, index) ==
    [p |-> "ComponentAliasSection", alias |-> "Outer", kind |-> kind,
     count |-> count, index |-> index]
CoreTypeItem == [p |-> "CoreTypeSection"]
ComponentItem(body) == [p |-> "ComponentSection", body |-> body]
ImportItem(ty) == [p |-> "ComponentImportSection", name |-> "imp", ty |-> ty]
InstanceItem(instance) == [p |-> "ComponentInstanceSection", instance |-> instance]
InstanceExportItem(kind, instance_index, name) ==
    [p |-> "ComponentAliasSection", alias |-> "InstanceExport", kind |-> kind,
     instance_index |-> instance_index, name |-> name]
ExportItem(name, kind, index) ==
    [p |-> "ComponentExportSection", name |-> name, kind |-> kind, index |-> index]

RECURSIVE PayloadsOf(_)
RECURSIVE PayloadsOfItems(_, _)
\* wasmparser Parser::parse_all over the bytes of a Component with the given
\* body: Version, the sections in order, End; after a ComponentSection payload
\* the iterator descends into the nested Component and yields its payloads too
PayloadsOf(body) ==
    <<[p |-> "Version", encoding |-> "Component"]>> \o PayloadsOfItems(body, 1) \o <<[p |-> "End"]>>
PayloadsOfItems(body, k) ==
    IF k > Len(body) THEN <<>>
    ELSE (IF body[k].p = "ComponentSection"
          THEN <<body[k]>> \o PayloadsOf(body[k].body)
          ELSE <<body[k]>>)
         \o PayloadsOfItems(body, k + 1)

\* parse.rs handle_canonical: one canonical-section entry
handle_canonical(component, canon) ==
    CASE canon = "Lift" ->
           [component EXCEPT !.funcs = Append(@, [tag |-> "Lifted", core_func_idx |-> 0,
                                                  options |-> <<>>])]
      [] canon = "Lower" ->
           [component EXCEPT !.core_funcs = Append(@, [tag |-> "Lowered", func_idx |-> 0,
                                                       options |-> <<>>])]
      [] OTHER -> component

RECURSIVE handle_canonical_entries(_, _, _)
\* the loop `for canon in reader` of the ComponentCanonicalSection arm
handle_canonical_entries(component, entries, k) ==
    IF k > Len(entries) THEN component
    ELSE handle_canonical_entries(handle_canonical(component, entries[k]), entries, k + 1)

\* parse.rs push_outer_alias_by_kind
push_outer_alias_by_kind(component, kind, info) ==
    LET node == [tag |-> "Aliased", info |-> info] IN
    CASE kind = "CoreModule" -> [component EXCEPT !.modules = Append(@, node)]
      [] kind = "CoreType" -> [component EXCEPT !.core_types = Append(@, node)]
      [] kind = "Type" -> [component EXCEPT !.types = Append(@, node)]
      [] OTHER -> [component EXCEPT !.components = Append(@, node)]

\* parse.rs push_alias_by_kind
push_alias_by_kind(component, kind, info) ==
    LET node == [tag |-> "Aliased", info |-> info] IN
    CASE kind = "Module" -> [component EXCEPT !.modules = Append(@, node)]
      [] kind = "Func" -> [component EXCEPT !.funcs = Append(@, node)]
      [] kind = "Value" -> [component EXCEPT !.values = Append(@, node)]
      [] kind = "Type" -> [component EXCEPT !.types = Append(@, node)]
      [] kind = "Instance" -> [component EXCEPT !.instances = Append(@, node)]
      [] OTHER -> [component EXCEPT !.components = Append(@, node)]

\* parse.rs handle_component_alias, the InstanceExport and Outer arms
handle_component_alias(component, alias) ==
    IF alias.alias = "InstanceExport"
    THEN push_alias_by_kind(component, alias.kind,
             [alias |-> "InstanceExport", instance_idx |-> alias.instance_index,
              name |-> alias.name])
    ELSE push_outer_alias_by_kind(component, alias.kind,
             [alias |-> "Outer", count |-> alias.count, index |-> alias.index])

\* parse.rs parse_component_instance
parse_component_instance(instance) ==
    IF instance.tag = "Instantiate"
    THEN [tag |-> "Instantiated", component_idx |-> instance.component_index,
          args |-> instance.args]
    ELSE [tag |-> "FromExports", exports |-> instance.exports]

\* parse.rs handle_component_export: IndexMap::insert keeps the position of a
\* name already present and appends a new name
handle_component_export(component, export) ==
    LET node == [name |-> export.name, kind |-> export.kind, index |-> export.index]
        at == FirstPos({i \in 1..Len(component.exports) :
                           component.exports[i].name = export.name}) IN
    IF at = 0 THEN [component EXCEPT !.exports = Append(@, node)]
    ELSE [component EXCEPT !.exports[at] = node]

\* parse.rs handle_component_import
handle_component_import(component, import) ==
    LET info == [tag |-> "Imported", name |-> import.name]
        c1 == CASE import.ty = "Module" -> [component EXCEPT !.modules = Append(@, info)]
                [] import.ty = "Func" -> [component EXCEPT !.funcs = Append(@, info)]
                [] import.ty = "Value" -> [component EXCEPT !.values = Append(@, info)]
                [] import.ty = "Type" -> [component EXCEPT !.types = Append(@, info)]
                [] import.ty = "Instance" -> [component EXCEPT !.instances = Append(@, info)]
                [] OTHER -> [component EXCEPT !.components = Append(@, info)] IN
    [c1 EXCEPT !.imports = Append(@, [name |-> import.name, ty |-> import.ty])]

RECURSIVE handle_payload(_, _, _, _)
RECURSIVE parse_loop(_, _, _, _, _)
RECURSIVE parse_component_with_parents(_, _, _)

\* parse.rs handle_payload on the Component at path self_id;
\* returns Ok([component, depth]) or the error of the nested parse
handle_payload(component, self_id, payload, d) ==
    CASE payload.p = "Version" ->
           IF d = 0 /\ payload.encoding # "Component"
           THEN Err("invalid", "Expected a Component, got a Module")
           ELSE Ok([component |-> component, depth |-> d])
      [] payload.p = "ComponentTypeSection" ->
           Ok([component |-> [component EXCEPT !.types =
                                 Append(@, [tag |-> "Defined", def |-> payload.def])],
               depth |-> d])
      [] payload.p = "ComponentImportSection" ->
           Ok([component |-> handle_component_import(component, payload), depth |-> d])
      [] payload.p = "ComponentInstanceSection" ->
           Ok([component |-> [component EXCEPT !.instances =
                                 Append(@, parse_component_instance(payload.instance))],
               depth |-> d])
      [] payload.p = "ComponentAliasSection" ->
           Ok([component |-> handle_component_alias(component, payload), depth |-> d])
      [] payload.p = "ComponentExportSection" ->
           Ok([component |-> handle_component_export(component, payload), depth |-> d])
      [] payload.p = "ComponentCanonicalSection" ->
           Ok([component |-> handle_canonical_entries(component, payload.entries, 1),
               depth |-> d])
      [] payload.p = "ComponentSection" ->
           \* new_parents = parents.clone() with the current ComponentId pushed
           Bind(parse_component_with_parents(payload.body,
                                             Append(component.parents, self_id),
                                             Append(self_id, Len(component.components))),
                LAMBDA nested :
                    Ok([component |-> [component EXCEPT !.components =
                                          Append(@, [tag |-> "Defined", component |-> nested])],
                        depth |-> d + 1]))
      [] payload.p = "CoreTypeSection" ->
           Ok([component |-> [component EXCEPT !.core_types =
                                 Append(@, [tag |-> "Defined", def |-> "Func"])],
               depth |-> d])
      [] payload.p = "End" ->
           Ok([component |-> component, depth |-> IF d = 0 THEN 0 ELSE d - 1])
      [] OTHER -> Ok([component |-> component, depth |-> d])

\* the loop `for payload in parser.parse_all(bytes)` from payload k on
parse_loop(component, self_id, payloads, k, d) ==
    IF k > Len(payloads) THEN Ok(component)
    ELSE Bind(handle_payload(component, self_id, payloads[k], d), LAMBDA r :
             parse_loop(r.component, self_id, payloads, k + 1, r.depth))

\* parse.rs parse_component_with_parents
parse_component_with_parents(body, parents, self_id) ==
    parse_loop(NewComponent(parents), self_id, PayloadsOf(body), 1, 0)

RECURSIVE ComponentAt(_, _)
\* the Component a path designates, from the root Component rt
ComponentAt(rt, path) ==
    IF path = <<>> THEN rt
    ELSE ComponentAt(rt.components[path[1] + 1].component, Tail(path))

\* get_parent_component without its count == 0 check: the current scope
get_parent_component_current_scope(rt, c, count) ==
    IF count = 0 THEN Ok(c)
    ELSE IF ~InBounds(c.parents, count - 1)
    THEN Err("panic", "Outer alias count but not enough parents available")
    ELSE Ok(ComponentAt(rt, At(c.parents, count - 1)))

\* resolve.rs Component::get_parent_component
get_parent_component(rt, c, count) ==
    IF count = 0 THEN Err("panic", "Outer alias count=0 is invalid (refers to current scope)")
    ELSE IF ~InBounds(c.parents, count - 1)
    THEN Err("panic", "Outer alias count but not enough parents available")
    ELSE Ok(ComponentAt(rt, At(c.parents, count - 1)))

\* resolve.rs Component::resolve_alias_export_component_instance: Ok of
\* Defined(nested Component, export index) or of Imported, or the panic
resolve_alias_export_component_instance(c, instance_idx, name, expected_kind) ==
    IF ~InBounds(c.instances, instance_idx)
    THEN Err("panic", "Instance index out of bounds")
    ELSE LET instance == At(c.instances, instance_idx) IN
         CASE instance.tag = "Instantiated" ->
                IF ~InBounds(c.components, instance.component_idx)
                THEN Err("panic", "Component index out of bounds")
                ELSE LET nested_node == At(c.components, instance.component_idx) IN
                     IF nested_node.tag # "Defined"
                     THEN Err("panic", "Component is not defined inline (imported or aliased)")
                     ELSE LET nested == nested_node.component
                              at == FirstPos({i \in 1..Len(nested.exports) :
                                                 nested.exports[i].name = name}) IN
                          IF at = 0 THEN Err("panic", "Export not found in component")
                          ELSE IF nested.exports[at].kind # expected_kind
                          THEN Err("panic", "Export has unexpected kind")
                          ELSE Ok([tag |-> "Defined", component |-> nested,
                                   index |-> nested.exports[at].index])
           [] instance.tag = "FromExports" ->
                LET at == FirstPos({i \in 1..Len(instance.exports) :
                                       instance.exports[i].name = name}) IN
                IF at = 0 THEN Err("panic", "Export not found in FromExports instance")
                ELSE IF instance.exports[at].kind # expected_kind
                THEN Err("panic", "Export has unexpected kind")
                ELSE Err("panic", "Cannot resolve InstanceExport through FromExports instance - not yet implemented")
           [] instance.tag = "Imported" -> Ok([tag |-> "Imported"])
           [] OTHER -> Err("panic", "Cannot resolve InstanceExport alias through aliased instance - resolve the instance first")

RECURSIVE resolve_type(_, _, _)
\* resolve.rs Component::resolve_type / TypeNode::resolve and follow_alias; the
\* Direct marker stands for ResolvedImport::Direct{name, ty} of the import
resolve_type(rt, c, idx) ==
    IF ~InBounds(c.types, idx) THEN Err("panic", "Index out of bounds")
    ELSE LET node == At(c.types, idx) IN
         CASE node.tag = "Defined" -> Ok([tag |-> "Defined", def |-> node.def])
           [] node.tag = "Imported" -> Ok([tag |-> "Imported", import |-> "Direct"])
           [] node.tag = "Aliased" /\ node.info.alias = "InstanceExport" ->
                Bind(resolve_alias_export_component_instance(c, node.info.instance_idx,
                                                             node.info.name, "Type"),
                     LAMBDA r :
                        IF r.tag = "Imported"
                        THEN Ok([tag |-> "Imported", import |-> "Indirect"])
                        ELSE resolve_type(rt, r.component, r.index))
           [] node.tag = "Aliased" /\ node.info.alias = "Outer" ->
                Bind(get_parent_component(rt, c, node.info.count), LAMBDA parent :
                    resolve_type(rt, parent, node.info.index))
           [] OTHER -> Err("panic", "Type cannot be aliased from CoreInstanceExport")

\* the kind a space's InstanceExport alias expects of the export
ExpectedKind(space) == IF space = "modules" THEN "Module" ELSE "Component"

RECURSIVE resolve_index(_, _, _, _)
\* resolve.rs Resolve::resolve_index with ModuleNode, ComponentNode and
\* CoreTypeNode resolve / follow_alias (space modules, components, core_types)
resolve_index(rt, c, space, idx) ==
    IF ~InBounds(c[space], idx) THEN Err("panic", "Index out of bounds")
    ELSE LET node == At(c[space], idx) IN
         CASE node.tag = "Defined" -> Ok([tag |-> "Defined"])
           [] node.tag = "Imported" -> Ok([tag |-> "Imported", import |-> "Direct"])
           [] node.tag = "Aliased" /\ node.info.alias = "Outer" ->
                Bind(get_parent_component(rt, c, node.info.count), LAMBDA parent :
                    resolve_index(rt, parent, space, node.info.index))
           [] node.tag = "Aliased" /\ node.info.alias = "InstanceExport"
                 /\ space # "core_types" ->
                Bind(resolve_alias_export_component_instance(c, node.info.instance_idx,
                                                             node.info.name,
                                                             ExpectedKind(space)),
                     LAMBDA r :
                        IF r.tag = "Imported"
                        THEN Ok([tag |-> "Imported", import |-> "Indirect"])
                        ELSE resolve_index(rt, r.component, space, r.index))
           [] OTHER -> Err("panic", "cannot be aliased from this kind of alias")

\* the Component binaries the parser is run on: the root defines a resource
\* type, imports a func, has one canonical section, and holds a chain of nested
\* Components nd deep; every nested Component defines one type of its own, and
\* the innermost one aliases type `0` of the ancestor `cnt` levels up
MaxCanon == 2
MaxDepth == 2
CanonKinds == {"Lift", "Lower", "ResourceDrop", "ResourceNew"}
TypeDefs == <<"Resource", "Func", "Instance", "Component", "Defined">>

\* canonical sections in which every lift has a core func to lift
CanonSections ==
    {q \in UNION {[1..k -> CanonKinds] : k \in 0..MaxCanon} :
        \A i \in 1..Len(q) : q[i] = "Lift" => \E j \in 1..(i - 1) : q[j] # "Lift"}

RECURSIVE NestedBody(_, _, _)
NestedBody(level, nd, cnt) ==
    <<TypeItem(TypeDefs[level + 1])>>
    \o (IF level < nd THEN <<ComponentItem(NestedBody(level + 1, nd, cnt))>>
        ELSE <<OuterTypeItem(cnt, 0)>>)

RootBody(canons, nd, cnt) ==
    <<TypeItem(TypeDefs[1]), ImportItem("Func")>>
    \o (IF canons # <<>> THEN <<CanonItem(canons)>> ELSE <<>>)
    \o (IF nd >= 1 THEN <<ComponentItem(NestedBody(1, nd, cnt))>> ELSE <<>>)

\* the type references of an import (ComponentTypeRef)
ImportTys == {"Module", "Func", "Value", "Type", "Instance", "Component"}
\* Components made of two imports, of any two type references
ImportBinaries ==
    {<<[ImportItem(t1) EXCEPT !.name = "a"], [ImportItem(t2) EXCEPT !.name = "b"]>> :
        t1 \in ImportTys, t2 \in ImportTys}

\* Components whose last item aliases the type export "t" of instance 0 (or 1):
\* an instance given by its exports, an imported instance, an instance of a
\* nested Component that exports its type, an alias of an instance, no instance
InstanceBinaries ==
    {<<TypeItem("Resource"),
       InstanceItem([tag |-> "FromExports",
                     exports |-> <<[name |-> n, kind |-> k, index |-> 0]>>]),
       InstanceExportItem("Type", 0, "t")>> : n \in {"t", "u"}, k \in {"Type", "Func"}}
    \cup {<<ImportItem("Instance"), InstanceExportItem("Type", 0, "t")>>,
          <<ComponentItem(<<TypeItem("Func"), ExportItem("t", "Type", 0)>>),
            InstanceItem([tag |-> "Instantiate", component_index |-> 0, args |-> <<>>]),
            InstanceExportItem("Type", 0, "t")>>,
          <<ImportItem("Instance"), InstanceExportItem("Instance", 0, "i"),
            InstanceExportItem("Type", 1, "t")>>,
          <<InstanceExportItem("Type", 0, "t")>>}

\* the outer alias kinds with an item that defines index 0 of the kind's space
OuterKinds ==
    {<<"Type", TypeItem("Resource")>>, <<"CoreModule", ImportItem("Module")>>,
     <<"CoreType", CoreTypeItem>>, <<"Component", ComponentItem(<<>>)>>}
\* Components with an outer alias of index 0 in each kind's space: with count 0
\* at the root, with count 0 in a nested Component, with count 1 from a child
OuterBinaries ==
    UNION {{<<k[2], OuterItem(k[1], 0, 0)>>,
            <<ComponentItem(<<k[2], OuterItem(k[1], 0, 0)>>)>>,
            <<k[2], ComponentItem(<<OuterItem(k[1], 1, 0)>>)>>} : k \in OuterKinds}

\* an outer alias reaches at most as far up as the root
Binaries ==
    {RootBody(t[1], t[2], t[3]) :
        t \in {u \in CanonSections \X (0..MaxDepth) \X (1..MaxDepth) :
                  u[3] <= u[2] \/ (u[2] = 0 /\ u[3] = 1)}}
    \cup ImportBinaries \cup InstanceBinaries \cup OuterBinaries

\* ------------------------------------------------------------------- state
VARIABLES
    component,   \* the parsed input Component the builder works on
    cli,         \* the CLI options [wat, overwrite]
    outdir,      \* the output directory [exists, files: file name -> contents]
    pc,          \* the stage main has reached: read, input_valid, checksummed,
                 \* start (parsed), prepared, assumed, linked, rewritten,
                 \* validated, done; or failed
    err,         \* None, or Some(Err) the run ended with
    linking,     \* None, or Some(lm) returned by linking_metadata
    decomposed,  \* ComponentDecomposed.modules
    written,     \* names of the files this run has written, in order
    removed,     \* whether this run has removed the output directory
    prev,        \* None, or Some(what the previous run ended with)
    run,         \* how many runs have been started
    binary,      \* the body of the Component binary handed to the parser
    stream,      \* the payloads parse_all has yet to yield to the root's loop
    root,        \* the root Component under construction
    depth,       \* the depth counter of the root's parse loop
    ppc,         \* the state of the parse: idle, parsing, parsed, failed
    resolved,    \* None, or Some([path, idx, space, result]) of the last resolve
    options,     \* the canonical options handed to from_options
    canon_opts,  \* None, or Some(result) of from_options on them
    call,        \* None, or Some([path, idx]): the resolve_type activation that runs
    ret,         \* None, or Some(result) the outermost resolve_type returned
    creplayer,   \* the CrimpReplayer [reader: records not yet read, eof]
    cevents,     \* what next_event returned so far: [tag, reads made until then]
    creads,      \* the number of from_replay_reader calls the CrimpReplayer made
    rbuffer,     \* the ReplayBuffer [reader: records not yet read, eof_encountered]
    ritems,      \* the items ReplayBuffer::next returned so far
    driver,      \* who iterates the ReplayBuffer: client (any caller of next), or
                 \* run_replay: iterating, returned, panicked
    times,       \* the argument n of instantiate_and_call_n_times
    instances,   \* the number of instances it created
    invocations, \* the outcomes of its calls of the export, in order
    loop_i,      \* the value `_` of its for loop takes next
    rrpc,        \* where it is: start, loop, returned
    result       \* None, or Some(Result) it returned

buildvars == <<component, cli, outdir, pc, err, linking, decomposed, written, removed>>
mainvars == <<prev, run>>
parsevars == <<binary, stream, root, depth, ppc, resolved>>
optvars == <<options, canon_opts>>
resolvevars == <<call, ret>>
tracevars == <<creplayer, cevents, creads>>
drivervars == <<rbuffer, ritems, driver>>
rrvars == <<times, instances, invocations, loop_i, rrpc, result>>
auxvars == <<optvars, resolvevars, tracevars, drivervars, rrvars>>
vars == <<component, cli, outdir, pc, err, linking, decomposed, written, removed,
          prev, run, binary, stream, root, depth, ppc, resolved, options, canon_opts,
          call, ret, creplayer, cevents, creads, rbuffer, ritems, driver,
          times, instances, invocations, loop_i, rrpc, result>>

\* Sha256::digest(&file): one digest per input file
checksum_of(c) == "sha256"

\* the ids of the Instantiated core instances: the keys of instance_map
InstantiatedIds(c) ==
    {i - 1 : i \in {n \in 1..Len(c.core_instances) : c.core_instances[n].tag = "Instantiated"}}

Fail(e) == /\ pc' = "failed"
           /\ err' = Some(e)

\* main.rs 585-587: Validator::new().validate_all(&file); the input files of the
\* runs modelled are valid Components, so the validation succeeds
ValidateInput ==
    /\ pc = "read"
    /\ pc' = "input_valid"
    /\ UNCHANGED <<component, cli, outdir, err, linking, decomposed, written, removed>>
    /\ UNCHANGED <<mainvars, parsevars, auxvars>>

\* main.rs 589: let checksum = Sha256::digest(&file)
ComputeChecksum ==
    /\ pc = "input_valid"
    /\ pc' = "checksummed"
    /\ UNCHANGED <<component, cli, outdir, err, linking, decomposed, written, removed>>
    /\ UNCHANGED <<mainvars, parsevars, auxvars>>

\* main.rs 590: let component_rc = parse_component(&file)?, returning the parsed
\* Component the builder works on
ParseComponent ==
    /\ pc = "checksummed"
    /\ pc' = "start"
    /\ UNCHANGED <<component, cli, outdir, err, linking, decomposed, written, removed>>
    /\ UNCHANGED <<mainvars, parsevars, auxvars>>

\* main.rs 592-595: if outdir.exists() { fs::remove_dir }; fs::create_dir.
\* remove_dir removes an empty directory only; cli.overwrite is never read
PrepareOutdir ==
    /\ pc = "start"
    /\ IF outdir.exists /\ DOMAIN outdir.files # {}
       THEN Fail(Err("io", "remove_dir: Directory not empty")) /\ UNCHANGED <<outdir, removed>>
       ELSE /\ outdir' = [exists |-> TRUE, files |-> EmptyMap]
            /\ removed' = outdir.exists
            /\ pc' = "prepared"
            /\ UNCHANGED err
    /\ UNCHANGED <<component, cli, linking, decomposed, written>>
    /\ UNCHANGED <<mainvars, parsevars, auxvars>>

\* from_component: validate_assumptions(&component)?
ValidateAssumptions ==
    /\ pc = "prepared"
    /\ \E r \in {validate_assumptions(component)} :
         IF IsErr(r) THEN Fail(r) ELSE pc' = "assumed" /\ UNCHANGED err
    /\ UNCHANGED <<component, cli, outdir, linking, decomposed, written, removed>>
    /\ UNCHANGED <<mainvars, parsevars, auxvars>>

\* from_component: let lm = linking_metadata(&component, checksum)?
LinkingMetadata ==
    /\ pc = "assumed"
    /\ \E im_order \in HashOrders(InstantiatedIds(component)) :
       \E r \in {linking_metadata(component, checksum_of(component), im_order)} :
         IF IsErr(r) THEN Fail(r) /\ UNCHANGED linking
         ELSE /\ linking' = Some(r.v)
              /\ pc' = "linked"
              /\ UNCHANGED err
    /\ UNCHANGED <<component, cli, outdir, decomposed, written, removed>>
    /\ UNCHANGED <<mainvars, parsevars, auxvars>>

\* from_component: let decomposed = Self::from_linking_metadata(lm)?
FromLinkingMetadata ==
    /\ pc = "linked"
    /\ LET lm == linking.v
           ids == DOMAIN lm.instantiations
           all == UNION {HashOrders(DOMAIN lm.instantiations[i].imports) : i \in ids} IN
       \E inst_order \in HashOrders(ids) :
       \E imp_orders \in [ids -> all] :
         /\ \A i \in ids : imp_orders[i] \in HashOrders(DOMAIN lm.instantiations[i].imports)
         /\ \E r \in {from_linking_metadata(lm, inst_order, imp_orders)} :
            IF IsErr(r) THEN Fail(r) /\ UNCHANGED decomposed
            ELSE /\ decomposed' = r.v
                 /\ pc' = "rewritten"
                 /\ UNCHANGED err
    /\ UNCHANGED <<component, cli, outdir, linking, written, removed>>
    /\ UNCHANGED <<mainvars, parsevars, auxvars>>

\* ComponentDecomposed::validate_modules: renaming imports and appending a custom
\* section keep a valid module valid
ValidateModules ==
    /\ pc = "rewritten"
    /\ pc' = "validated"
    /\ UNCHANGED <<component, cli, outdir, err, linking, decomposed, written, removed>>
    /\ UNCHANGED <<mainvars, parsevars, auxvars>>

\* the path dump_to_files writes module m to
module_path(m) == m.module_name \o (IF cli.wat THEN ".wat" ELSE ".wasm")
\* the bytes dump_to_files writes for module m
module_bytes(m) == [wat |-> cli.wat, module |-> m]

\* fs::write of module k alone, the loop of dump_to_files ending after it
write_files_once(files, ms, k, n) ==
    IF k > n THEN files
    ELSE MapInsert(files, module_path(ms[k]), module_bytes(ms[k]))

RECURSIVE write_files(_, _, _, _)
\* fs::write of modules k..n of ms, in order, onto files
write_files(files, ms, k, n) ==
    IF k > n THEN files
    ELSE write_files(MapInsert(files, module_path(ms[k]), module_bytes(ms[k])), ms, k + 1, n)

\* dump_to_files run right after the rewrite, before validate_modules
DumpToFilesUnvalidated ==
    /\ pc = "rewritten"
    /\ outdir' = [outdir EXCEPT !.files = write_files(outdir.files, decomposed, 1, Len(decomposed))]
    /\ written' = [i \in 1..Len(decomposed) |-> module_path(decomposed[i])]
    /\ pc' = "done"
    /\ UNCHANGED <<component, cli, err, linking, decomposed, removed>>
    /\ UNCHANGED <<mainvars, parsevars, auxvars>>

\* ComponentDecomposed::dump_to_files, every fs::write succeeding
DumpToFiles ==
    /\ pc = "validated"
    /\ outdir' = [outdir EXCEPT !.files = write_files(outdir.files, decomposed, 1, Len(decomposed))]
    /\ written' = [i \in 1..Len(decomposed) |-> module_path(decomposed[i])]
    /\ pc' = "done"
    /\ UNCHANGED <<component, cli, err, linking, decomposed, removed>>
    /\ UNCHANGED <<mainvars, parsevars, auxvars>>

\* ComponentDecomposed::dump_to_files, the fs::write of module n + 1 failing:
\* the `?` returns the error, the n files written before it stay
DumpToFilesFails ==
    /\ pc = "validated"
    /\ \E n \in 0..(Len(decomposed) - 1) :
         /\ outdir' = [outdir EXCEPT !.files = write_files(outdir.files, decomposed, 1, n)]
         /\ written' = [i \in 1..n |-> module_path(decomposed[i])]
    /\ Fail(Err("io", "fs::write"))
    /\ UNCHANGED <<component, cli, linking, decomposed, removed>>
    /\ UNCHANGED <<mainvars, parsevars, auxvars>>

MaxRuns == 2

\* the user runs the tool again with the same arguments, after having deleted
\* the output directory (clean) or leaving it as the previous run left it
Rerun ==
    /\ pc \in {"done", "failed"}
    /\ run < MaxRuns
    /\ \E clean \in BOOLEAN :
         /\ prev' = Some([pc |-> pc, err |-> err, files |-> outdir.files,
                          written |-> written, kept |-> ~clean])
         /\ outdir' = IF clean THEN [exists |-> FALSE, files |-> EmptyMap] ELSE outdir
    /\ run' = run + 1
    /\ pc' = "read"
    /\ err' = None
    /\ linking' = None
    /\ decomposed' = <<>>
    /\ written' = <<>>
    /\ removed' = FALSE
    /\ UNCHANGED <<component, cli>>
    /\ UNCHANGED <<parsevars, auxvars>>

\* the root's loop takes the result r of handle_payload on the next payload:
\* an error ends the parse, otherwise the loop goes on with the next payload
TakePayload(r) ==
    /\ IF IsErr(r) THEN ppc' = "failed" /\ UNCHANGED <<root, depth>>
       ELSE /\ root' = r.v.component
            /\ depth' = r.v.depth
            /\ UNCHANGED ppc
    /\ stream' = Tail(stream)
    /\ UNCHANGED <<binary, resolved>>
    /\ UNCHANGED <<buildvars, mainvars, auxvars>>

\* the Version arm of handle_payload, applied by the root's loop to the next payload
HandleVersion ==
    /\ ppc = "parsing"
    /\ stream # <<>>
    /\ Head(stream).p = "Version"
    /\ \E r \in {handle_payload(root, <<>>, Head(stream), depth)} : TakePayload(r)

\* the ComponentTypeSection arm, applied by the root's loop to the next payload
HandleComponentTypeSection ==
    /\ ppc = "parsing"
    /\ stream # <<>>
    /\ Head(stream).p = "ComponentTypeSection"
    /\ \E r \in {handle_payload(root, <<>>, Head(stream), depth)} : TakePayload(r)

\* the ComponentImportSection arm, applied by the root's loop to the next payload
HandleComponentImportSection ==
    /\ ppc = "parsing"
    /\ stream # <<>>
    /\ Head(stream).p = "ComponentImportSection"
    /\ \E r \in {handle_payload(root, <<>>, Head(stream), depth)} : TakePayload(r)

\* the ComponentAliasSection arm, applied by the root's loop to the next payload
HandleComponentAliasSection ==
    /\ ppc = "parsing"
    /\ stream # <<>>
    /\ Head(stream).p = "ComponentAliasSection"
    /\ \E r \in {handle_payload(root, <<>>, Head(stream), depth)} : TakePayload(r)

\* the ComponentInstanceSection arm, applied by the root's loop to the next payload
HandleComponentInstanceSection ==
    /\ ppc = "parsing"
    /\ stream # <<>>
    /\ Head(stream).p = "ComponentInstanceSection"
    /\ \E r \in {handle_payload(root, <<>>, Head(stream), depth)} : TakePayload(r)

\* the ComponentExportSection arm, applied by the root's loop to the next payload
HandleComponentExportSection ==
    /\ ppc = "parsing"
    /\ stream # <<>>
    /\ Head(stream).p = "ComponentExportSection"
    /\ \E r \in {handle_payload(root, <<>>, Head(stream), depth)} : TakePayload(r)

\* the CoreTypeSection arm, applied by the root's loop to the next payload
HandleCoreTypeSection ==
    /\ ppc = "parsing"
    /\ stream # <<>>
    /\ Head(stream).p = "CoreTypeSection"
    /\ \E r \in {handle_payload(root, <<>>, Head(stream), depth)} : TakePayload(r)

\* the ComponentCanonicalSection arm, applied by the root's loop to the next payload
HandleComponentCanonicalSection ==
    /\ ppc = "parsing"
    /\ stream # <<>>
    /\ Head(stream).p = "ComponentCanonicalSection"
    /\ \E r \in {handle_payload(root, <<>>, Head(stream), depth)} : TakePayload(r)

\* the ComponentSection arm: the nested Component is parsed and pushed, applied by the root's loop to the next payload
HandleComponentSection ==
    /\ ppc = "parsing"
    /\ stream # <<>>
    /\ Head(stream).p = "ComponentSection"
    /\ \E r \in {handle_payload(root, <<>>, Head(stream), depth)} : TakePayload(r)

\* the End arm, applied by the root's loop to the next payload
HandleEnd ==
    /\ ppc = "parsing"
    /\ stream # <<>>
    /\ Head(stream).p = "End"
    /\ \E r \in {handle_payload(root, <<>>, Head(stream), depth)} : TakePayload(r)

\* parse_component_with_parents: Ok(component_ref) once parse_all is exhausted
ParseReturn ==
    /\ ppc = "parsing"
    /\ stream = <<>>
    /\ ppc' = "parsed"
    /\ UNCHANGED <<binary, stream, root, depth, resolved>>
    /\ UNCHANGED <<buildvars, mainvars, auxvars>>

RECURSIVE BinaryPaths(_, _)
\* the paths of the Components of a binary with the given body, from `path`
BinaryPaths(body, path) ==
    LET comps == SelectSeq(body, LAMBDA it : it.p = "ComponentSection") IN
    {path} \cup UNION {BinaryPaths(comps[i].body, Append(path, i - 1)) : i \in 1..Len(comps)}

\* a client resolves type idx of the Component at `path`
ResolveType ==
    /\ ppc = "parsed"
    /\ \E path \in BinaryPaths(binary, <<>>) :
         LET c == ComponentAt(root, path) IN
         \E idx \in 0..(Len(c.types) - 1) :
            resolved' = Some([path |-> path, idx |-> idx, space |-> "types",
                              result |-> resolve_type(root, c, idx)])
    /\ UNCHANGED <<binary, stream, root, depth, ppc>>
    /\ UNCHANGED <<buildvars, mainvars, auxvars>>

\* a client resolves module idx of the Component at `path`
ResolveModule ==
    /\ ppc = "parsed"
    /\ \E path \in BinaryPaths(binary, <<>>) :
         LET c == ComponentAt(root, path) IN
         \E idx \in 0..(Len(c.modules) - 1) :
            resolved' = Some([path |-> path, idx |-> idx, space |-> "modules",
                              result |-> resolve_index(root, c, "modules", idx)])
    /\ UNCHANGED <<binary, stream, root, depth, ppc>>
    /\ UNCHANGED <<buildvars, mainvars, auxvars>>

\* a client resolves component idx of the Component at `path`
ResolveComponent ==
    /\ ppc = "parsed"
    /\ \E path \in BinaryPaths(binary, <<>>) :
         LET c == ComponentAt(root, path) IN
         \E idx \in 0..(Len(c.components) - 1) :
            resolved' = Some([path |-> path, idx |-> idx, space |-> "components",
                              result |-> resolve_index(root, c, "components", idx)])
    /\ UNCHANGED <<binary, stream, root, depth, ppc>>
    /\ UNCHANGED <<buildvars, mainvars, auxvars>>

\* a client resolves core type idx of the Component at `path`
ResolveCoreType ==
    /\ ppc = "parsed"
    /\ \E path \in BinaryPaths(binary, <<>>) :
         LET c == ComponentAt(root, path) IN
         \E idx \in 0..(Len(c.core_types) - 1) :
            resolved' = Some([path |-> path, idx |-> idx, space |-> "core_types",
                              result |-> resolve_index(root, c, "core_types", idx)])
    /\ UNCHANGED <<binary, stream, root, depth, ppc>>
    /\ UNCHANGED <<buildvars, mainvars, auxvars>>

NoComponent == NewComponent(<<>>)

InitBuild(c) ==
    /\ component = c
    /\ pc = "read"
    /\ err = None
    /\ linking = None
    /\ decomposed = <<>>
    /\ written = <<>>
    /\ removed = FALSE
    /\ prev = None
    /\ run = 1

OptionsIdle ==
    /\ options = <<>>
    /\ canon_opts = None

ResolveIdle ==
    /\ call = None
    /\ ret = None

TraceIdle ==
    /\ creplayer = [reader |-> <<>>, eof |-> FALSE]
    /\ cevents = <<>>
    /\ creads = 0

DriverIdle ==
    /\ rbuffer = [reader |-> <<>>, eof_encountered |-> FALSE]
    /\ ritems = <<>>
    /\ driver = "client"

RrIdle ==
    /\ times = 1
    /\ instances = 0
    /\ invocations = <<>>
    /\ loop_i = 1
    /\ rrpc = "start"
    /\ result = None

GlueIdle == TraceIdle /\ DriverIdle /\ RrIdle

AuxIdle == OptionsIdle /\ ResolveIdle /\ GlueIdle

ParseIdle ==
    /\ binary = <<>>
    /\ stream = <<>>
    /\ root = NoComponent
    /\ depth = 0
    /\ ppc = "idle"
    /\ resolved = None

\* the builder and the rewriter on every input of the family, one run each
Init ==
    /\ \E c \in Inputs : InitBuild(c)
    /\ cli = [wat |-> FALSE, overwrite |-> FALSE]
    /\ outdir = [exists |-> FALSE, files |-> EmptyMap]
    /\ ParseIdle
    /\ AuxIdle

Next ==
    \/ ValidateInput
    \/ ComputeChecksum
    \/ ParseComponent
    \/ PrepareOutdir
    \/ ValidateAssumptions
    \/ LinkingMetadata
    \/ FromLinkingMetadata
    \/ ValidateModules
    \/ DumpToFiles

Spec == Init /\ [][Next]_vars

\* the inputs of the orchestrator runs: the consumer wired to the first bundle
MainInputs ==
    {MkComponent(imps, bundle, <<[name |-> "p", index |-> 1]>>, "none") :
        imps \in DistinctSeqs({[module |-> "p", name |-> "x"], [module |-> "p", name |-> "y"]},
                              MaxImports),
        bundle \in Bundles(MaxBundle)}
    \cup {EmptyComponent}
    \cup UnsupportedInputs

\* a file some earlier program left in the output directory
StaleFiles == [x \in {"stale"} |-> [wat |-> FALSE, module |-> "stale"]]

\* main run up to MaxRuns times, on any CLI options and any output directory
InitMain ==
    /\ \E c \in MainInputs : InitBuild(c)
    /\ cli \in [wat : {FALSE}, overwrite : BOOLEAN]
    /\ outdir \in {[exists |-> FALSE, files |-> EmptyMap],
                   [exists |-> TRUE, files |-> EmptyMap],
                   [exists |-> TRUE, files |-> StaleFiles]}
    /\ ParseIdle
    /\ AuxIdle

NextMain ==
    \/ ValidateInput
    \/ ComputeChecksum
    \/ ParseComponent
    \/ PrepareOutdir
    \/ ValidateAssumptions
    \/ LinkingMetadata
    \/ FromLinkingMetadata
    \/ ValidateModules
    \/ DumpToFiles
    \/ DumpToFilesFails
    \/ Rerun

SpecMain == InitMain /\ [][NextMain]_vars

\* the parser on every binary of the family, then resolve_type on the result
InitParse ==
    /\ InitBuild(NoComponent)
    /\ cli = [wat |-> FALSE, overwrite |-> FALSE]
    /\ outdir = [exists |-> FALSE, files |-> EmptyMap]
    /\ binary \in Binaries
    /\ stream = PayloadsOf(binary)
    /\ root = NoComponent
    /\ depth = 0
    /\ ppc = "parsing"
    /\ resolved = None
    /\ AuxIdle

NextParse ==
    \/ HandleVersion
    \/ HandleComponentTypeSection
    \/ HandleComponentImportSection
    \/ HandleComponentInstanceSection
    \/ HandleComponentAliasSection
    \/ HandleComponentCanonicalSection
    \/ HandleComponentExportSection
    \/ HandleCoreTypeSection
    \/ HandleComponentSection
    \/ HandleEnd
    \/ ParseReturn
    \/ ResolveType
    \/ ResolveModule
    \/ ResolveComponent
    \/ ResolveCoreType

SpecParse == InitParse /\ [][NextParse]_vars

MaxOptions == 3
\* the canonical options of a lift or lower in WiredComponent: its memory 0, its
\* core func 3 (the provider's realloc) and the two string encodings
CanonicalOptions ==
    {[opt |-> "Memory", idx |-> 0], [opt |-> "Realloc", idx |-> 3],
     [opt |-> "PostReturn", idx |-> 3], [opt |-> "UTF8", idx |-> 0],
     [opt |-> "UTF16", idx |-> 0]}
OptionVectors == UNION {[1..n -> CanonicalOptions] : n \in 0..MaxOptions}

\* CanonicalOptionsIndex::from_options called on the options of one canonical
\* function of WiredComponent
FromOptions ==
    /\ canon_opts = None
    /\ \E im_order \in HashOrders(InstantiatedIds(component)) :
       \E im \in {gather_instance_map(component)} :
         canon_opts' = Some(from_options(component, options,
                                         [map |-> im.v, order |-> im_order]))
    /\ UNCHANGED options
    /\ UNCHANGED <<buildvars, mainvars, parsevars, resolvevars, tracevars, drivervars, rrvars>>

\* from_options on every option vector of at most MaxOptions options
InitOptions ==
    /\ InitBuild(WiredComponent)
    /\ cli = [wat |-> FALSE, overwrite |-> FALSE]
    /\ outdir = [exists |-> FALSE, files |-> EmptyMap]
    /\ ParseIdle
    /\ options \in OptionVectors
    /\ canon_opts = None
    /\ ResolveIdle
    /\ GlueIdle

NextOptions == FromOptions

SpecOptions == InitOptions /\ [][NextOptions]_vars

\* One activation of resolve_type on type idx of the Component at path:
\* Done(result) when TypeNode::resolve / follow_alias returns or panics here,
\* Call(path, idx) when it ends in a call of resolve_type on another node
\* (nested.resolve_type(export_idx), parent.resolve_type(index)), whose result
\* it returns unchanged
resolve_type_step(rt, path, idx) ==
    LET c == ComponentAt(rt, path)
        Done(r) == [tag |-> "Done", result |-> r]
        Call(q, i) == [tag |-> "Call", path |-> q, idx |-> i] IN
    IF ~InBounds(c.types, idx) THEN Done(Err("panic", "Index out of bounds"))
    ELSE LET node == At(c.types, idx) IN
         CASE node.tag = "Defined" -> Done(Ok([tag |-> "Defined", def |-> node.def]))
           [] node.tag = "Imported" -> Done(Ok([tag |-> "Imported", import |-> "Direct"]))
           [] node.tag = "Aliased" /\ node.info.alias = "InstanceExport" ->
                LET r == resolve_alias_export_component_instance(c, node.info.instance_idx,
                                                                 node.info.name, "Type") IN
                IF IsErr(r) THEN Done(r)
                ELSE IF r.v.tag = "Imported"
                THEN Done(Ok([tag |-> "Imported", import |-> "Indirect"]))
                ELSE Call(Append(path, At(c.instances, node.info.instance_idx).component_idx),
                          r.v.index)
           [] node.tag = "Aliased" /\ node.info.alias = "Outer" ->
                LET parent == get_parent_component(rt, c, node.info.count) IN
                IF IsErr(parent) THEN Done(parent)
                ELSE Call(At(c.parents, node.info.count - 1), node.info.index)
           [] OTHER -> Done(Err("panic", "Type cannot be aliased from CoreInstanceExport"))

RECURSIVE ComponentPaths(_, _)
\* the paths of the Components that the parsed Component c at `path` holds
ComponentPaths(c, path) ==
    {path} \cup UNION {ComponentPaths(c.components[i].component, Append(path, i - 1)) :
                          i \in {j \in 1..Len(c.components) : c.components[j].tag = "Defined"}}

\* Components in which a nested Component re-exports, as "t", a type it
\* aliases from the root (outer count 2, index i), and its parent aliases
\* export "t" of an instance of it. They are resolved one activation at a time
\* (resolve_type_step): the recursive operator resolve_type has no value on a
\* chain that does not end
ReexportBinary(i) ==
    <<TypeItem("Func"), TypeItem("Defined"),
      ComponentItem(<<ComponentItem(<<OuterItem("Type", 2, i), ExportItem("t", "Type", 0)>>),
                      InstanceItem([tag |-> "Instantiate", component_index |-> 0,
                                    args |-> <<>>]),
                      InstanceExportItem("Type", 0, "t")>>)>>
ReexportBinaries == {ReexportBinary(i) : i \in {0, 1}}

\* a client calls resolve_type(idx) on a Component of the parsed tree
ResolveTypeCall ==
    /\ call = None
    /\ \E path \in ComponentPaths(root, <<>>) :
         \E idx \in 0..(Len(ComponentAt(root, path).types) - 1) :
            call' = Some([path |-> path, idx |-> idx])
    /\ ret' = None
    /\ UNCHANGED <<buildvars, mainvars, parsevars, optvars, tracevars, drivervars, rrvars>>

\* the running activation calls resolve_type on the node its alias leads to
FollowAlias ==
    /\ call # None
    /\ \E r \in {resolve_type_step(root, call.v.path, call.v.idx)} :
         /\ r.tag = "Call"
         /\ call' = Some([path |-> r.path, idx |-> r.idx])
    /\ UNCHANGED ret
    /\ UNCHANGED <<buildvars, mainvars, parsevars, optvars, tracevars, drivervars, rrvars>>

\* the running activation returns or panics, and with it every caller
ResolveTypeReturn ==
    /\ call # None
    /\ \E r \in {resolve_type_step(root, call.v.path, call.v.idx)} :
         /\ r.tag = "Done"
         /\ ret' = Some(r.result)
    /\ call' = None
    /\ UNCHANGED <<buildvars, mainvars, parsevars, optvars, tracevars, drivervars, rrvars>>

\* the parsed Components the resolver is called on
InitResolve ==
    /\ InitBuild(NoComponent)
    /\ cli = [wat |-> FALSE, overwrite |-> FALSE]
    /\ outdir = [exists |-> FALSE, files |-> EmptyMap]
    /\ binary \in Binaries \cup ReexportBinaries
    /\ stream = <<>>
    /\ root = parse_component_with_parents(binary, <<>>, <<>>).v
    /\ depth = 0
    /\ ppc = "parsed"
    /\ resolved = None
    /\ OptionsIdle
    /\ ResolveIdle
    /\ GlueIdle

NextResolve ==
    \/ ResolveTypeCall
    \/ FollowAlias
    \/ ResolveTypeReturn

\* a running activation takes its next step
SpecResolve ==
    InitResolve /\ [][NextResolve]_vars /\ WF_vars(FollowAlias) /\ WF_vars(ResolveTypeReturn)

\* the builder, the parser, the resolver and from_options are not running
BuilderIdle ==
    /\ InitBuild(NoComponent)
    /\ cli = [wat |-> FALSE, overwrite |-> FALSE]
    /\ outdir = [exists |-> FALSE, files |-> EmptyMap]
    /\ ParseIdle
    /\ OptionsIdle
    /\ ResolveIdle
buildervars == <<buildvars, mainvars, parsevars, optvars, resolvevars>>

MaxTrace == 3
MaxCalls == 3
\* what a read of the trace can meet: an event (two diagnostic kinds, one
\* kind of replayed event, Eof) or bytes that do not deserialize
Records == {"Nop", "CustomMessage", "HostFuncEntry", "Eof", "Corrupt"}
\* the trace files, as the records after the TraceSignatureEvent
Traces == UNION {[1..k -> Records] : k \in 0..MaxTrace}

\* RREvent::is_diagnostic: Nop and CustomMessage
is_diagnostic(event) == event \in {"Nop", "CustomMessage"}

\* wasm_crimp::from_replay_reader: the next event, or the error of a read at
\* the end of the file or of a record that does not deserialize
from_replay_reader(reader) ==
    IF reader = <<>> THEN [result |-> Err("read", "unexpected end of file"), reader |-> <<>>]
    ELSE IF Head(reader) = "Corrupt"
    THEN [result |-> Err("read", "deserialization failed"), reader |-> Tail(reader)]
    ELSE [result |-> Ok(Head(reader)), reader |-> Tail(reader)]

\* convert.rs From<RREvent> for CrimpEvent: the tag of the event's variant
CrimpEvent_from(event) ==
    CASE event = "Nop" -> [tag |-> "Nop"]
      [] event = "Eof" -> [tag |-> "Eof"]
      [] event = "CustomMessage" -> [tag |-> "CustomMessage"]
      [] OTHER -> [tag |-> event]

RECURSIVE next_event_loop(_, _)
\* the `loop` of CrimpReplayer::next_event, after `reads` reads
next_event_loop(reader, reads) ==
    LET r == from_replay_reader(reader) IN
    IF IsErr(r.result)
    THEN [replayer |-> [reader |-> r.reader, eof |-> TRUE],
          event |-> [tag |-> "Error"], reads |-> reads + 1]
    ELSE IF is_diagnostic(r.result.v) THEN next_event_loop(r.reader, reads + 1)
    ELSE [replayer |-> [reader |-> r.reader, eof |-> r.result.v = "Eof"],
          event |-> CrimpEvent_from(r.result.v), reads |-> reads + 1]

\* next_event without the `if self.eof` latch
next_event_rereading(replayer) == next_event_loop(replayer.reader, 0)

\* CrimpReplayer::next_event: the replayer afterwards, the event returned, the
\* number of reads made
next_event(replayer) ==
    IF replayer.eof
    THEN [replayer |-> replayer, event |-> [tag |-> "Eof"], reads |-> 0]
    ELSE next_event_loop(replayer.reader, 0)

\* crimp_replayer_next_event on the pointer crimp_replayer_open returned
CrimpReplayerNextEvent ==
    /\ Len(cevents) < MaxCalls
    /\ \E r \in {next_event(creplayer)} :
         /\ creplayer' = r.replayer
         /\ creads' = creads + r.reads
         /\ cevents' = Append(cevents, [tag |-> r.event.tag, reads |-> creads + r.reads])
    /\ UNCHANGED <<buildervars, drivervars, rrvars>>

\* after CrimpReplayer::open, which has read the signature
InitTrace ==
    /\ BuilderIdle
    /\ creplayer \in {[reader |-> t, eof |-> FALSE] : t \in Traces}
    /\ cevents = <<>>
    /\ creads = 0
    /\ DriverIdle
    /\ RrIdle

NextTrace == CrimpReplayerNextEvent

SpecTrace == InitTrace /\ [][NextTrace]_vars

RECURSIVE event_loop(_)
\* the 'event_loop of ReplayBuffer::next: the buffer afterwards and the item
event_loop(reader) ==
    LET r == from_replay_reader(reader) IN
    IF IsErr(r.result)
    THEN [buffer |-> [reader |-> r.reader, eof_encountered |-> FALSE],
          item |-> Some(Err("FailedRead", r.result.msg))]
    ELSE IF r.result.v = "Eof"
    THEN [buffer |-> [reader |-> r.reader, eof_encountered |-> TRUE], item |-> None]
    ELSE IF is_diagnostic(r.result.v) THEN event_loop(r.reader)
    ELSE [buffer |-> [reader |-> r.reader, eof_encountered |-> FALSE],
          item |-> Some(Ok(r.result.v))]

\* ReplayBuffer::next
ReplayBuffer_next(buffer) ==
    IF buffer.eof_encountered THEN [buffer |-> buffer, item |-> None]
    ELSE event_loop(buffer.reader)

\* a caller of the Iterator calls next
IteratorNext ==
    /\ driver = "client"
    /\ Len(ritems) < MaxCalls
    /\ \E r \in {ReplayBuffer_next(rbuffer)} :
         /\ rbuffer' = r.buffer
         /\ ritems' = Append(ritems, r.item)
    /\ UNCHANGED driver
    /\ UNCHANGED <<buildervars, tracevars, rrvars>>

\* one turn of `while let Some(event_res) = replayer.next()` of run_replay:
\* None ends the loop, event_res.unwrap() panics on Some(Err(_))
RunReplayIteration ==
    /\ driver = "iterating"
    /\ \E r \in {ReplayBuffer_next(rbuffer)} :
         /\ rbuffer' = r.buffer
         /\ ritems' = Append(ritems, r.item)
         /\ driver' = IF r.item = None THEN "returned"
                       ELSE IF IsErr(r.item.v) THEN "panicked"
                       ELSE "iterating"
    /\ UNCHANGED <<buildervars, tracevars, rrvars>>

\* after ReplayBuffer::new_replayer, which has read the signature
InitDriver ==
    /\ BuilderIdle
    /\ TraceIdle
    /\ rbuffer \in {[reader |-> t, eof_encountered |-> FALSE] : t \in Traces}
    /\ ritems = <<>>
    /\ driver \in {"client", "iterating"}
    /\ RrIdle

NextDriver ==
    \/ IteratorNext
    \/ RunReplayIteration

SpecDriver == InitDriver /\ [][NextDriver]_vars

MaxTimes == 6
\* the results the export can return
Results == {"x", "y"}
\* call_once: Ok(result), or the error of func.call or func.post_return
CallOutcomes == {Ok(v) : v \in Results} \cup {Err("trap", "call failed")}

\* linker.instantiate(&mut store, &component)?
Instantiate ==
    /\ rrpc = "start"
    /\ \/ /\ instances' = instances + 1
          /\ loop_i' = 1
          /\ rrpc' = "loop"
          /\ UNCHANGED result
       \/ /\ result' = Some(Err("instantiate", "instantiation failed"))
          /\ rrpc' = "returned"
          /\ UNCHANGED <<instances, loop_i>>
    /\ UNCHANGED <<times, invocations>>
    /\ UNCHANGED <<buildervars, tracevars, drivervars>>

\* one turn of `for _ in 1..n - 1 { let _ = call_once(..)?; }`; n >= 1, so the
\* u32 subtraction does not wrap
LoopCall ==
    /\ rrpc = "loop"
    /\ loop_i < times - 1
    /\ \E o \in CallOutcomes :
         /\ invocations' = Append(invocations, o)
         /\ IF IsErr(o)
            THEN /\ result' = Some(o)
                 /\ rrpc' = "returned"
                 /\ UNCHANGED loop_i
            ELSE /\ loop_i' = loop_i + 1
                 /\ UNCHANGED <<result, rrpc>>
    /\ UNCHANGED <<times, instances>>
    /\ UNCHANGED <<buildervars, tracevars, drivervars>>

\* the range is exhausted: the last call_once, whose Result is returned
FinalCall ==
    /\ rrpc = "loop"
    /\ ~(loop_i < times - 1)
    /\ \E o \in CallOutcomes :
         /\ invocations' = Append(invocations, o)
         /\ result' = Some(o)
    /\ rrpc' = "returned"
    /\ UNCHANGED <<times, instances, loop_i>>
    /\ UNCHANGED <<buildervars, tracevars, drivervars>>

\* RunMode::InstantiateAndCallNTimes{n} with n >= 1
InitRr ==
    /\ BuilderIdle
    /\ TraceIdle
    /\ DriverIdle
    /\ times \in 1..MaxTimes
    /\ instances = 0
    /\ invocations = <<>>
    /\ loop_i = 1
    /\ rrpc = "start"
    /\ result = None

NextRr ==
    \/ Instantiate
    \/ LoopCall
    \/ FinalCall

SpecRr == InitRr /\ [][NextRr]_vars

\* ------------------------------------------------------------------ claims
Range(q) == {q[i] : i \in 1..Len(q)}
BothRunsDone == pc = "done" /\ prev # None /\ prev.v.pc = "done"

\* C1: for a fixed input Component and fixed CLI options every successful run
\* writes the same set of files with the same contents: the same
\* builtin{k}/stub{k} import names and the same order of import_adapters.
C1_RunsWriteIdenticalFiles ==
    BothRunsDone => outdir.files = prev.v.files

\* C2: a build that meets an Instantiated core instance whose module was already
\* instantiated by an earlier core instance aborts; so once linking_metadata has
\* succeeded every module of mm has exactly one instance in instance_map, and
\* that instance is a key of instantiations.
C2_EachModuleInstantiatedOnce ==
    linking # None =>
        \A m \in DOMAIN linking.v.mm :
            LET ids == {i \in DOMAIN linking.v.instance_map : linking.v.instance_map[i] = m} IN
            /\ Cardinality(ids) = 1
            /\ ids \subseteq DOMAIN linking.v.instantiations

CrimpNames(n) ==
    {"builtin" \o ToString(k) : k \in 0..(n - 1)} \cup {"stub" \o ToString(k) : k \in 0..(n - 1)}

\* C3: after rewriting, every import of every emitted module is
\* ("crimp-replay", builtin{k}), ("crimp-replay", stub{k}), or names, as its
\* module part, the rewritten name of another module emitted in the same run.
C3_ImportsNameCrimpOrAnotherModule ==
    pc \in {"rewritten", "validated", "done"} =>
        \A i \in 1..Len(decomposed) :
            \A j \in 1..Len(decomposed[i].imports) :
                LET imp == decomposed[i].imports[j] IN
                \/ imp.module = "crimp-replay" /\ imp.name \in CrimpNames(Len(decomposed[i].imports))
                \/ \E o \in 1..Len(decomposed) :
                      o # i /\ decomposed[o].module_name = imp.module

\* C4: once linking_metadata has returned successfully, for every instance in
\* instantiations the key set of its imports is the ImportId set of its module:
\* the positions 0..n-1 of the module's ordered import list.
C4_ClassificationCoversImports ==
    linking # None =>
        \A id \in DOMAIN linking.v.instantiations :
            LET module == linking.v.mm[linking.v.instance_map[id]].module IN
            DOMAIN linking.v.instantiations[id].imports = 0..(Len(module.imports) - 1)

C4_Witness ==
    /\ linking # None
    /\ \E id \in DOMAIN linking.v.instantiations :
         Cardinality(DOMAIN linking.v.instantiations[id].imports) >= 2

\* the (package, member) pairs the args of an Instantiated core instance provide
ProvidedPairs(c, inst) ==
    UNION {LET src == At(c.core_instances, inst.args[a].index)
               exps == IF src.tag = "FromExports" THEN src.exports
                       ELSE At(c.modules, src.module_idx).module.exports IN
           {[module |-> inst.args[a].name, name |-> exps[e].name] : e \in 1..Len(exps)}
           : a \in 1..Len(inst.args)}
\* the (package, member) pairs the module of an Instantiated core instance imports
RequiredPairs(c, inst) == Range(At(c.modules, inst.module_idx).module.imports)
\* the args name each package once, the bundles each member once, and together
\* they provide exactly the required imports
ExactlyWired(c, inst) ==
    /\ ProvidedPairs(c, inst) = RequiredPairs(c, inst)
    /\ \A a, b \in 1..Len(inst.args) : inst.args[a].name = inst.args[b].name => a = b
\* the component cut after its k-th core instance
UpTo(c, k) == [c EXCEPT !.core_instances = SubSeq(c.core_instances, 1, k)]
\* the build gets past core instance k (1-based) under some HashMap order
ProceedsPast(c, k) ==
    \E im_order \in HashOrders(InstantiatedIds(c)) :
        IsOk(link_instances_loop(UpTo(c, k), [map |-> gather_instance_map(c).v, order |-> im_order],
                                 [mm |-> EmptyMap, synthetic |-> EmptyMap, instantiations |-> EmptyMap], 1))

\* C5: the build proceeds past an Instantiated core instance only if its arg
\* bundles provide exactly the imports its module requires; an unmatched bundle
\* export, an unmatched import, a missing arg and an extra arg each abort.
C5_ProceedsOnlyIfExactlyWired ==
    (pc = "linked" \/ (pc = "failed" /\ linking = None)) =>
        \A k \in 1..Len(component.core_instances) :
            (component.core_instances[k].tag = "Instantiated" /\ ProceedsPast(component, k))
                => ExactlyWired(component, component.core_instances[k])

C5_Witness ==
    /\ linking # None
    /\ \E k \in 1..Len(component.core_instances) :
         /\ component.core_instances[k].tag = "Instantiated"
         /\ Len(component.core_instances[k].args) = 2
         /\ Cardinality(RequiredPairs(component, component.core_instances[k])) = 2

\* the component-level space an import of a type reference gets its index in
ImportSpace(ty) ==
    CASE ty = "Module" -> "modules"
      [] ty = "Func" -> "funcs"
      [] ty = "Value" -> "values"
      [] ty = "Type" -> "types"
      [] ty = "Instance" -> "instances"
      [] OTHER -> "components"

\* what the Component binary defines, in order: the space and the kind of node
RECURSIVE BinaryDefs(_, _)
BinaryDefs(body, k) ==
    IF k > Len(body) THEN <<>>
    ELSE LET it == body[k]
             CanonDef(kind) == IF kind = "Lift" THEN [space |-> "funcs", tag |-> "Lifted"]
                               ELSE IF kind = "Lower" THEN [space |-> "core_funcs", tag |-> "Lowered"]
                               ELSE [space |-> "core_funcs", tag |-> kind] IN
         (CASE it.p = "ComponentTypeSection" -> <<[space |-> "types", tag |-> "Defined"]>>
            [] it.p = "ComponentImportSection" ->
                 <<[space |-> ImportSpace(it.ty), tag |-> "Imported"]>>
            [] it.p = "ComponentAliasSection" ->
                 <<[space |-> CASE it.kind = "Instance" -> "instances"
                                [] it.kind = "CoreModule" -> "modules"
                                [] it.kind = "CoreType" -> "core_types"
                                [] it.kind = "Component" -> "components"
                                [] OTHER -> "types",
                    tag |-> "Aliased"]>>
            [] it.p = "CoreTypeSection" -> <<[space |-> "core_types", tag |-> "Defined"]>>
            [] it.p = "ComponentInstanceSection" ->
                 <<[space |-> "instances",
                    tag |-> parse_component_instance(it.instance).tag]>>
            [] it.p = "ComponentExportSection" -> <<>>
            [] it.p = "ComponentCanonicalSection" -> [e \in 1..Len(it.entries) |-> CanonDef(it.entries[e])]
            [] OTHER -> <<[space |-> "components", tag |-> "Defined"]>>)
         \o BinaryDefs(body, k + 1)
\* the tags of the nodes the binary assigns index 0, 1, .. in a space
BinarySpace(body, space) ==
    LET defs == SelectSeq(BinaryDefs(body, 1), LAMBDA d : d.space = space) IN
    [i \in 1..Len(defs) |-> defs[i].tag]
Spaces == {"modules", "components", "instances", "funcs", "values", "types",
           "core_instances", "core_funcs", "core_memories", "core_tables",
           "core_globals", "core_types"}
NodeTags(c, space) == [i \in 1..Len(c[space]) |-> c[space][i].tag]

RECURSIVE BodyAt(_, _)
\* the body of the Component of the binary at a path
BodyAt(body, path) ==
    IF path = <<>> THEN body
    ELSE BodyAt(SelectSeq(body, LAMBDA it : it.p = "ComponentSection")[path[1] + 1].body, Tail(path))

RECURSIVE TrueType(_, _, _)
\* the type definition that index idx of the Component at path denotes in the binary
TrueType(body, path, idx) ==
    LET it == SelectSeq(BodyAt(body, path),
                        LAMBDA x : x.p = "ComponentTypeSection"
                                   \/ (x.p = "ComponentAliasSection" /\ x.kind = "Type"))[idx + 1] IN
    IF it.p = "ComponentTypeSection" THEN [tag |-> "Defined", def |-> it.def]
    ELSE TrueType(body, SubSeq(path, 1, Len(path) - it.count), it.index)

\* the last resolve_type was asked for an outer alias of the binary
ResolvedOuterAlias ==
    /\ resolved # None
    /\ resolved.v.space = "types"
    /\ LET items == SelectSeq(BodyAt(binary, resolved.v.path),
                              LAMBDA x : x.p = "ComponentTypeSection"
                                   \/ (x.p = "ComponentAliasSection" /\ x.kind = "Type")) IN
       /\ resolved.v.idx < Len(items)
       /\ items[resolved.v.idx + 1].p = "ComponentAliasSection"
       /\ items[resolved.v.idx + 1].alias = "Outer"
       /\ items[resolved.v.idx + 1].count >= 1

\* C6: resolving Aliased(Outer{count, index}) with count >= 1 yields what index
\* denotes in the ancestor exactly count levels up (1 the immediate parent, 2
\* the grandparent), at every nesting depth.
C6_OuterResolvesCountLevelsUp ==
    ResolvedOuterAlias =>
        resolved.v.result = Ok(TrueType(binary, resolved.v.path, resolved.v.idx))

\* C7: after parsing, in each of the twelve index spaces the node at position i
\* describes the item the binary assigns index i in that space: every construct
\* of the binary that defines an index appended exactly one node to its space.
C7_SpacesFollowBinaryIndices ==
    ppc = "parsed" =>
        \A space \in Spaces : NodeTags(root, space) = BinarySpace(binary, space)

\* the root's canonical sections hold an entry that is not lift, lower or resource.drop
HasUnlistedCanon(body) ==
    \E k \in 1..Len(body) :
        /\ body[k].p = "ComponentCanonicalSection"
        /\ \E e \in 1..Len(body[k].entries) :
              body[k].entries[e] \notin {"Lift", "Lower", "ResourceDrop"}

\* C8: a canonical-section entry of a kind other than lift, lower or
\* resource.drop makes the parse fail with an unsupported error; the parser never
\* skips such an entry and returns a Component.
C8_UnlistedCanonFailsParse ==
    HasUnlistedCanon(binary) => ppc # "parsed"

\* C9: an output directory that already exists is removed only when the
\* overwrite-output flag allows it; with the flag unset it is not removed.
C9_RemovedOnlyIfOverwrite ==
    removed => cli.overwrite

\* the previous run prepared the output directory and then failed, and the user
\* left the directory as that run left it
PrevRunFailedAfterPreparing ==
    /\ prev # None
    /\ prev.v.pc = "failed"
    /\ prev.v.kept
    /\ prev.v.err.v.msg # "remove_dir: Directory not empty"

\* C10: a run that fails at any stage, also part-way through writing the output
\* files, leaves none of its files in the output directory, and a later run on
\* the same output directory gets a freshly prepared directory.
C10_FailedRunLeavesNothing ==
    /\ pc = "failed" => written = <<>>
    /\ (PrevRunFailedAfterPreparing /\ pc \notin {"read", "input_valid", "checksummed", "start"})
         => ~(pc = "failed" /\ err.v.msg = "remove_dir: Directory not empty")

\* the stage that follows each stage of main
NextStage ==
    [read |-> "input_valid", input_valid |-> "checksummed", checksummed |-> "start",
     start |-> "prepared", prepared |-> "assumed", assumed |-> "linked",
     linked |-> "rewritten", rewritten |-> "validated", validated |-> "done"]

\* C11: the stages run strictly in the order validate input, compute checksum,
\* parse, (prepare the output directory,) assert assumptions, build linking
\* metadata, rewrite, validate each output, write outputs: a run moves from a
\* stage only to the next one or to failure, and the output directory gets a
\* file only in the step taken from the stage where every rewritten module has
\* passed validation.
C11_StagesInOrder ==
    [][/\ (pc' # pc /\ run' = run) => (pc \in DOMAIN NextStage /\ pc' \in {NextStage[pc], "failed"})
       /\ (run' = run /\ outdir'.files # outdir.files /\ DOMAIN outdir'.files # {})
             => pc = "validated"]_vars

C11_Witness ==
    pc = "done" /\ Len(written) >= 2

\* the file names a run on Component c is to produce: module{m}_instance{i} with
\* the extension of the chosen format, for every Instantiated core instance i
ExpectedFiles(c) ==
    {module_name_from_ids(c.core_instances[k].module_idx, k - 1)
        \o (IF cli.wat THEN ".wat" ELSE ".wasm") :
     k \in {n \in 1..Len(c.core_instances) : c.core_instances[n].tag = "Instantiated"}}

\* C12: on a successful run the output directory holds exactly one file for each
\* Instantiated core instance of the Component and no other file (none when
\* core_instances is empty), each named module{m}_instance{i} after its module.
C12_OneFilePerInstance ==
    pc = "done" =>
        /\ DOMAIN outdir.files = ExpectedFiles(component)
        /\ Cardinality(DOMAIN outdir.files) = Cardinality(InstantiatedIds(component))

C12_Witness ==
    /\ pc = "done"
    /\ Cardinality(InstantiatedIds(component)) = 2
    /\ Cardinality(DOMAIN outdir.files) = 2
    /\ prev # None

\* the Component contains a nested component or an imported module
HasUnsupported(c) ==
    \/ c.components # <<>>
    \/ \E i \in 1..Len(c.modules) : c.modules[i].tag = "Imported"

\* C13: a run on a Component that contains a nested component or an imported
\* module never gets past the assumption check, and it ends with an unsupported
\* error, the output directory existing and holding no files.
C13_UnsupportedAbortsWithEmptyOutdir ==
    HasUnsupported(component) =>
        /\ pc \in {"read", "input_valid", "checksummed", "start", "prepared", "failed"}
        /\ pc = "failed" => /\ err.v.kind = "unsupported"
                            /\ outdir.exists
                            /\ outdir.files = EmptyMap

\* the core space of a kind of item
CoreSpace(c, kind) ==
    CASE kind \in {"func", "func_exact"} -> c.core_funcs
      [] kind = "memory" -> c.core_memories
      [] kind = "table" -> c.core_tables
      [] OTHER -> c.core_globals
\* the bundle export that serves import imp = [module, name] of the core
\* instance inst: the export called imp.name of the bundle passed as imp.module
ServingExport(c, inst, imp) ==
    LET a == CHOOSE a \in 1..Len(inst.args) : inst.args[a].name = imp.module
        exps == At(c.core_instances, inst.args[a].index).exports IN
    exps[CHOOSE e \in 1..Len(exps) : exps[e].name = imp.name]
\* a bundle export is an item aliased from an export of an instantiated module
FromInstance(c, export) ==
    /\ InBounds(CoreSpace(c, export.kind), export.index)
    /\ At(CoreSpace(c, export.kind), export.index).tag = "Aliased"
    /\ At(c.core_instances, At(CoreSpace(c, export.kind), export.index).instance_idx).tag
          = "Instantiated"
\* where such an item originates: the instance it is aliased from, that
\* instance's module, and the module export the alias names
Origin(c, export) ==
    LET alias == At(CoreSpace(c, export.kind), export.index)
        module_idx == At(c.core_instances, alias.instance_idx).module_idx
        exps == At(c.modules, module_idx).module.exports IN
    [instance |-> alias.instance_idx,
     export |-> exps[CHOOSE e \in 1..Len(exps) : exps[e].name = alias.name]]

\* C14: for every import classified Rename{package, member}, package is the
\* instance the provided item is aliased from, and member is a name under which
\* that instance's module exports the item: an export of the same kind and the
\* same internal index, whatever the bundle and the importing module call it.
C14_RenameNamesOriginExport ==
    linking # None =>
        \A id \in DOMAIN linking.v.instantiations :
            \A idx \in DOMAIN linking.v.instantiations[id].imports :
                LET kind == linking.v.instantiations[id].imports[idx]
                    inst == At(component.core_instances, id)
                    imp == At(At(component.modules, inst.module_idx).module.imports, idx)
                    export == ServingExport(component, inst, imp) IN
                kind.tag = "Rename" =>
                    /\ FromInstance(component, export)
                    /\ kind.package = Origin(component, export).instance
                    /\ \E e \in Range(At(component.modules,
                                          At(component.core_instances, kind.package).module_idx
                                         ).module.exports) :
                          /\ e.name = kind.member
                          /\ NormKind(e.kind) = NormKind(Origin(component, export).export.kind)
                          /\ e.index = Origin(component, export).export.index

\* an export list with every func-exact entry turned into a func entry
FuncExports(exps) ==
    [i \in 1..Len(exps) |-> IF exps[i].kind = "func_exact"
                            THEN [exps[i] EXCEPT !.kind = "func"] ELSE exps[i]]
\* the Component with func in place of func-exact in every export entry
WithFuncForFuncExact(c) ==
    [c EXCEPT !.modules = [i \in 1..Len(c.modules) |->
                              [c.modules[i] EXCEPT !.module.exports = FuncExports(@)]],
              !.core_instances = [i \in 1..Len(c.core_instances) |->
                              IF c.core_instances[i].tag = "FromExports"
                              THEN [c.core_instances[i] EXCEPT !.exports = FuncExports(@)]
                              ELSE c.core_instances[i]]]
\* some export entry of a module or of a bundle has kind func-exact
HasFuncExact(c) == WithFuncForFuncExact(c) # c

ResolvedAs(r, tags) == IsOk(r) /\ r.v.tag \in tags
\* the indices of an index space
Indices(space) == 0..(Len(space) - 1)

\* C16: for the Component being decomposed and every in-bounds index of every
\* space it uses, the resolver of that space is defined (it does not panic) and
\* returns a resolved variant: a definition or an import, never an alias.
C16_ResolversDefinedWithoutAlias ==
    /\ \A i \in Indices(component.modules) :
          ResolvedAs(resolve_module(component, i), {"Defined", "Imported"})
    /\ \A i \in Indices(component.funcs) :
          ResolvedAs(resolve_component_func(component, i), {"Lifted", "Imported"})
    /\ \A i \in Indices(component.core_instances) :
          ResolvedAs(resolve_core_instance(component, i), {"Instantiated", "FromExports"})
    /\ \A i \in Indices(component.core_funcs) :
          ResolvedAs(resolve_core_func(component, i), {"FromModule", "Lowered", "ResourceDrop"})
    /\ \A i \in Indices(component.core_memories) : IsOk(resolve_core_memory(component, i))
    /\ \A i \in Indices(component.core_tables) : IsOk(resolve_core_table(component, i))
    /\ \A i \in Indices(component.core_globals) :
          IsOk(resolve_core_item(component, "global", i))

\* the six component-level spaces
ComponentSpaces == {"modules", "components", "instances", "funcs", "values", "types"}
\* the slots (space, position) of Component c whose node is Imported and holds
\* the 0-based position i of an import in c.imports
SlotsOfImport(c, i) ==
    {sl \in UNION {{<<sp, k>> : k \in 1..Len(c[sp])} : sp \in ComponentSpaces} :
        /\ c[sl[1]][sl[2]].tag = "Imported"
        /\ "import_idx" \in DOMAIN c[sl[1]][sl[2]]
        /\ c[sl[1]][sl[2]].import_idx = i}

\* C17: after parsing, every import has exactly one slot in the six
\* component-level spaces whose Imported node holds the import's position i in
\* the imports vector, and that slot is in the space of the import's type.
C17_ImportSlotRefersBackByPosition ==
    ppc = "parsed" =>
        \A i \in Indices(root.imports) :
            /\ Cardinality(SlotsOfImport(root, i)) = 1
            /\ \A sl \in SlotsOfImport(root, i) : sl[1] = ImportSpace(At(root.imports, i).ty)

\* the entries of export_funcs: (instance, position in that instance's list)
ExportEntries(lm) ==
    UNION {{<<i, j>> : j \in 1..Len(lm.export_funcs[i])} : i \in DOMAIN lm.export_funcs}
\* the 0-based positions of the Func exports of the Component
FuncExportPositions(c) == {k - 1 : k \in {n \in 1..Len(c.exports) : c.exports[n].kind = "Func"}}
\* the module export name of the core func lifted by the Func export at position p
LiftedExportName(c, p) ==
    At(c.core_funcs, At(c.funcs, At(c.exports, p).index).core_func_idx).name

\* C18: every entry of export_funcs has as record_id the 0-based position of
\* its export among all the exports of the Component, the skipped non-Func ones
\* counted: the record_ids are the positions of the Func exports, each once,
\* and an entry carries the function of the export at its record_id.
C18_RecordIdIsExportPosition ==
    linking # None =>
        /\ \A e \in ExportEntries(linking.v) :
              LET md == linking.v.export_funcs[e[1]][e[2]] IN
              /\ md.record_id \in FuncExportPositions(component)
              /\ md.name = LiftedExportName(component, md.record_id)
        /\ \A e, f \in ExportEntries(linking.v) :
              linking.v.export_funcs[e[1]][e[2]].record_id
                 = linking.v.export_funcs[f[1]][f[2]].record_id => e = f
        /\ Cardinality(ExportEntries(linking.v)) = Cardinality(FuncExportPositions(component))

C18_Witness ==
    /\ linking # None
    /\ Cardinality(ExportEntries(linking.v)) = 3
    /\ \E e \in ExportEntries(linking.v) :
          /\ e[2] = 2
          /\ linking.v.export_funcs[e[1]][e[2]].record_id = 2

\* the adapter records the imports of instance id call for: one for each
\* import classified TrueImport with options present
ExpectedAdapters(lm, id) ==
    {[target |-> idx,
      memory |-> lm.instantiations[id].imports[idx].opts.v.memory,
      realloc |-> lm.instantiations[id].imports[idx].opts.v.realloc] :
     idx \in {i \in DOMAIN lm.instantiations[id].imports :
                 /\ lm.instantiations[id].imports[i].tag = "TrueImport"
                 /\ lm.instantiations[id].imports[i].opts.tag = "Some"}}
\* the data of the crimp-replay custom section of an emitted module
CrimpData(m) == m.custom_sections[1].data

\* C19: in the custom section of every emitted module, import_adapters holds
\* exactly one record for each import classified TrueImport with options
\* present, its target that import's ImportId and its memory and realloc those
\* of the options, and no record for any other import.
C19_AdaptersForTrueImportsWithOptions ==
    pc \in {"rewritten", "validated", "done"} =>
        \A i \in 1..Len(decomposed) :
            /\ Range(CrimpData(decomposed[i]).import_adapters)
                  = ExpectedAdapters(linking.v, CrimpData(decomposed[i]).instance_id)
            /\ Len(CrimpData(decomposed[i]).import_adapters)
                  = Cardinality(ExpectedAdapters(linking.v, CrimpData(decomposed[i]).instance_id))

C19_Witness ==
    /\ pc = "rewritten"
    /\ \E i \in 1..Len(decomposed) :
          /\ Len(CrimpData(decomposed[i]).import_adapters) = 1
          /\ CrimpData(decomposed[i]).import_adapters[1].memory.tag = "Some"
          /\ Cardinality({j \in 1..Len(decomposed[i].imports) :
                             decomposed[i].imports[j].module = "crimp-replay"}) = 2

\* the positions of the imports of an emitted module that name crimp-replay
CrimpImports(m) == {j \in 1..Len(m.imports) : m.imports[j].module = "crimp-replay"}
\* the prefix of the name a classification gets
CrimpPrefix(kind) == IF kind.tag = "Builtin" THEN "builtin" ELSE "stub"

\* C20: within one emitted module the suffixes of the builtin{k} and stub{k}
\* import names come from one counter over the Builtin and TrueImport imports
\* together: with n such imports, every k in 0..n-1 is the suffix of exactly one
\* of them, and each is named builtin or stub after its classification.
C20_OneCounterForBuiltinsAndStubs ==
    pc \in {"rewritten", "validated", "done"} =>
        \A i \in 1..Len(decomposed) :
            LET m == decomposed[i]
                kinds == linking.v.instantiations[CrimpData(decomposed[i]).instance_id].imports
                n == Cardinality({idx \in DOMAIN kinds : kinds[idx].tag \in {"Builtin", "TrueImport"}}) IN
            /\ Cardinality(CrimpImports(m)) = n
            /\ \A k \in 0..(n - 1) :
                  Cardinality({j \in CrimpImports(m) :
                                  m.imports[j].name = CrimpPrefix(kinds[j - 1]) \o ToString(k)}) = 1

C20_Witness ==
    /\ pc = "rewritten"
    /\ \E i \in 1..Len(decomposed) :
          {decomposed[i].imports[j].name : j \in CrimpImports(decomposed[i])}
             \in {{"builtin0", "stub1"}, {"stub0", "builtin1"}}

\* the options of a kind in an option vector
OptionsOf(opts, kind) == {k \in 1..Len(opts) : opts[k].opt = kind}

\* C21: from_options yields None for an empty option vector; for a non-empty
\* one it yields an index in which memory, realloc and post_return are set
\* exactly when a Memory, Realloc or PostReturn option is present: the utf8 and
\* utf16 options set none of them.
C21_EmptyIsNoneAndEncodingsAreNoOps ==
    canon_opts # None =>
        /\ IsOk(canon_opts.v)
        /\ (options = <<>>) <=> (canon_opts.v.v = None)
        /\ options # <<>> =>
              /\ canon_opts.v.v.v.memory # None <=> OptionsOf(options, "Memory") # {}
              /\ canon_opts.v.v.v.realloc # None <=> OptionsOf(options, "Realloc") # {}
              /\ canon_opts.v.v.v.post_return # None <=> OptionsOf(options, "PostReturn") # {}

C21_Witness ==
    /\ canon_opts # None
    /\ Len(options) = 2
    /\ \A k \in 1..Len(options) : options[k].opt \in {"UTF8", "UTF16"}
    /\ canon_opts.v = Ok(Some(CanonicalOptionsIndexDefault))

\* the instance node that the InstanceExport alias at resolved.v refers to
AliasedInstance ==
    LET c == ComponentAt(root, resolved.v.path)
        node == At(c.types, resolved.v.idx) IN
    IF resolved.v.space = "types"
          /\ node.tag = "Aliased" /\ node.info.alias = "InstanceExport"
          /\ InBounds(c.instances, node.info.instance_idx)
    THEN Some(At(c.instances, node.info.instance_idx))
    ELSE None

\* C22: resolving a type that is an InstanceExport alias whose instance is a
\* FromExports component instance returns the "indirect" resolved-import marker.
C22_FromExportsAliasResolvesIndirect ==
    (resolved # None /\ AliasedInstance # None /\ AliasedInstance.v.tag = "FromExports")
        => resolved.v.result = Ok([tag |-> "Imported", import |-> "Indirect"])
\* the case the source does answer with the marker: the instance is imported
C22_ImportedInstanceAliasResolvesIndirect ==
    (resolved # None /\ AliasedInstance # None /\ AliasedInstance.v.tag = "Imported")
        => resolved.v.result = Ok([tag |-> "Imported", import |-> "Indirect"])
C22_ImportedInstanceAliasResolved ==
    resolved # None /\ AliasedInstance # None /\ AliasedInstance.v.tag = "Imported"
\* a FromExports alias whose export exists with the expected kind was resolved
C22_FromExportsAliasResolved ==
    /\ resolved # None /\ AliasedInstance # None /\ AliasedInstance.v.tag = "FromExports"
    /\ \E i \in 1..Len(AliasedInstance.v.exports) :
          AliasedInstance.v.exports[i] = [name |-> "t", kind |-> "Type", index |-> 0]
\* what the resolver does in that case
C22_FromExportsAliasPanics ==
    C22_FromExportsAliasResolved =>
        resolved.v.result = Err("panic", "Cannot resolve InstanceExport through FromExports instance - not yet implemented")

\* the node that was resolved
ResolvedNode == At(ComponentAt(root, resolved.v.path)[resolved.v.space], resolved.v.idx)
ResolvedOuterZero ==
    /\ resolved # None
    /\ ResolvedNode.tag = "Aliased"
    /\ ResolvedNode.info.alias = "Outer"
    /\ ResolvedNode.info.count = 0

\* C23: resolving an outer alias with count = 0 fails with the panic of
\* get_parent_component, in the module, component, type and core type space,
\* and never yields what its index designates in the current scope.
C23_OuterCountZeroRejected ==
    ResolvedOuterZero =>
        resolved.v.result =
            Err("panic", "Outer alias count=0 is invalid (refers to current scope)")
\* a count-0 alias of a nested Component was resolved, in a space other than types
C23_Witness ==
    /\ ResolvedOuterZero
    /\ resolved.v.path # <<>>
    /\ resolved.v.space = "modules"
    /\ IsErr(resolved.v.result)

\* linking_metadata run again on the same Component under bucket order o gives
\* the instance_map, instantiations and export_funcs that `linking` holds
SameLinkingUnder(o) ==
    \E r \in {linking_metadata(component, linking.v.checksum, o)} :
        /\ IsOk(r)
        /\ r.v.instance_map = linking.v.instance_map
        /\ r.v.instantiations = linking.v.instantiations
        /\ r.v.export_funcs = linking.v.export_funcs
\* some module of the Component is instantiated by two core instances
InstantiatedTwice ==
    \E i, j \in InstantiatedIds(component) :
        i # j /\ At(component.core_instances, i).module_idx
                   = At(component.core_instances, j).module_idx

\* C24: the linking metadata is a function of the Component and the checksum:
\* any two builds of the same binary yield equal instance_map, instantiations
\* (the package of every Rename included) and export_funcs.
C24_LinkingMetadataIsAFunction ==
    linking # None =>
        \A o \in HashOrders(InstantiatedIds(component)) : SameLinkingUnder(o)
\* the same, for Components that instantiate every module at most once
C24_FunctionWhenInstantiatedOnce ==
    (linking # None /\ ~InstantiatedTwice) =>
        \A o \in HashOrders(InstantiatedIds(component)) : SameLinkingUnder(o)
C24_LinkedOnceWithTwoInstances ==
    linking # None /\ ~InstantiatedTwice /\ Cardinality(InstantiatedIds(component)) >= 2

RECURSIVE OwnItemsOnly(_, _, _, _)
\* the Component that the items of `body` from item k on build when each
\* ComponentSection contributes its one Defined node and every other item is
\* handled by the Component whose body holds it
OwnItemsOnly(c, self_id, body, k) ==
    IF k > Len(body) THEN c
    ELSE IF body[k].p = "ComponentSection"
    THEN OwnItemsOnly(
             [c EXCEPT !.components =
                 Append(@, [tag |-> "Defined",
                            component |-> OwnItemsOnly(NewComponent(Append(c.parents, self_id)),
                                                       Append(self_id, Len(c.components)),
                                                       body[k].body, 1)])],
             self_id, body, k + 1)
    ELSE OwnItemsOnly(handle_payload(c, self_id, body[k], 0).v.component, self_id, body, k + 1)

\* some nested Component of the body has items of its own
HasNestedItems(body) ==
    \E k \in 1..Len(body) : body[k].p = "ComponentSection" /\ body[k].body # <<>>

\* C25: a ComponentSection adds one ComponentNode::Defined to the enclosing
\* Component and nothing else: after the parse the root holds the nodes of its
\* own items and one Defined node per nested Component, and so does every
\* nested Component; no item of a nested Component is in an enclosing one.
C25_ComponentSectionAddsOneNode ==
    ppc = "parsed" => root = OwnItemsOnly(NewComponent(<<>>), <<>>, binary, 1)
\* the same, for binaries whose nested Components are empty
C25_HoldsWithEmptyNested ==
    (ppc = "parsed" /\ ~HasNestedItems(binary))
        => root = OwnItemsOnly(NewComponent(<<>>), <<>>, binary, 1)
C25_ParsedWithEmptyNested ==
    /\ ppc = "parsed" /\ ~HasNestedItems(binary)
    /\ \E k \in 1..Len(binary) : binary[k].p = "ComponentSection"

\* the (instance, import) pairs of `linking` classified Rename
Renames ==
    {p \in UNION {{<<id, idx>> : idx \in DOMAIN linking.v.instantiations[id].imports} :
                     id \in DOMAIN linking.v.instantiations} :
        linking.v.instantiations[p[1]].imports[p[2]].tag = "Rename"}
\* the package of a Rename is an instantiation made before its importer
ProviderFirst(p) ==
    LET package == linking.v.instantiations[p[1]].imports[p[2]].package IN
    /\ package \in DOMAIN linking.v.instantiations
    /\ linking.v.instantiations[package].instantiate_order
          < linking.v.instantiations[p[1]].instantiate_order

\* C26: for every import of instance I classified Rename{package P}, P is a key
\* of instantiations and instantiate_order(P) < instantiate_order(I): the
\* provider is instantiated before its importer.
C26_RenameProviderInstantiatedFirst ==
    linking # None => \A p \in Renames : ProviderFirst(p)
\* the same, for Components that instantiate every module at most once
C26_ProviderFirstWhenInstantiatedOnce ==
    (linking # None /\ ~InstantiatedTwice) => \A p \in Renames : ProviderFirst(p)
C26_RenameWhenInstantiatedOnce ==
    linking # None /\ ~InstantiatedTwice /\ Renames # {}

\* C27: every call of resolve_type, on every parsed Component and index,
\* returns or panics after finitely many alias-following steps.
C27_EveryResolveReturns == (call # None) ~> (ret # None)
\* the same, for the binaries without a re-exported outer alias
C27_ReturnsWithoutReexport ==
    (call # None /\ binary \notin ReexportBinaries) ~> (ret # None)
\* the chain through which the resolver comes back to the node it started from:
\* in the re-exporting Component, type 0 is the outer alias (count 2, index 1)
C27_OnTheCycle ==
    /\ binary = ReexportBinary(1)
    /\ call = Some([path |-> <<0, 0>>, idx |-> 0])
C27_CycleIsClosed ==
    C27_OnTheCycle =>
        /\ resolve_type_step(root, <<0, 0>>, 0) = [tag |-> "Call", path |-> <<0>>, idx |-> 1]
        /\ resolve_type_step(root, <<0>>, 1) = [tag |-> "Call", path |-> <<0, 0>>, idx |-> 0]

\* C28: next_event never returns a diagnostic event (Nop, CustomMessage), and
\* once it has returned Eof or Error every later call returns Eof and makes no
\* further read of the trace file.
C28_NoDiagnosticAndEofLatched ==
    \A i \in 1..Len(cevents) :
        /\ cevents[i].tag \notin {"Nop", "CustomMessage"}
        /\ cevents[i].tag \in {"Eof", "Error"} =>
              \A j \in (i + 1)..Len(cevents) :
                  cevents[j].tag = "Eof" /\ cevents[j].reads = cevents[i].reads
\* a diagnostic was skipped, the read after it failed, and later calls were made
\* with records left in the file
C28_Witness ==
    /\ Len(cevents) = MaxCalls
    /\ cevents[1] = [tag |-> "Error", reads |-> 2]
    /\ creplayer.reader # <<>>

\* the item is Some(Ok(_))
IsSomeOk(item) == item # None /\ IsOk(item.v)
\* C29: once next has returned None or Some(Err(_)), no later call of next
\* yields Some(Ok(_)).
C29_NoEventAfterEndOrError ==
    \A i \in 1..Len(ritems) :
        ~IsSomeOk(ritems[i]) => \A j \in (i + 1)..Len(ritems) : ~IsSomeOk(ritems[j])
\* the same, after None only
C29_NoEventAfterNone ==
    \A i \in 1..Len(ritems) :
        ritems[i] = None => \A j \in (i + 1)..Len(ritems) : ritems[j] = None
C29_CalledAfterNone ==
    Len(ritems) >= 2 /\ ritems[1] = None /\ rbuffer.reader # <<>>
\* the same as C29, in the loop of run_replay
C29_RunReplayStopsAtError ==
    driver # "client" =>
        \A i \in 1..Len(ritems) :
            ~IsSomeOk(ritems[i]) => \A j \in (i + 1)..Len(ritems) : ~IsSomeOk(ritems[j])
C29_RunReplayPanicked == driver = "panicked" /\ rbuffer.reader # <<>>

\* C30: for every n >= 1, instantiate_and_call_n_times invokes the export
\* exactly n times on the one instance it creates and returns the result of the
\* last invocation.
C30_CallsExportNTimes ==
    (rrpc = "returned" /\ IsOk(result.v)) =>
        /\ instances = 1
        /\ Len(invocations) = times
        /\ result.v = invocations[Len(invocations)]
\* what it does: one call for n = 1, n - 1 calls for n >= 2
C30_CallsExportOnceLess ==
    (rrpc = "returned" /\ IsOk(result.v)) =>
        /\ instances = 1
        /\ Len(invocations) = IF times = 1 THEN 1 ELSE times - 1
        /\ result.v = invocations[Len(invocations)]
C30_ReturnedForTwo == rrpc = "returned" /\ IsOk(result.v) /\ times = 2

====
